---- MODULE Spec2Model ----
(***************************************************************************)
(* A model of budgetApp.py: a single-session budgeting dashboard whose     *)
(* four tables (transactions, fixed expenses, saving goals, monthly plan)  *)
(* live in remote worksheets and are mirrored in st.session_state.         *)
(*                                                                         *)
(* Worksheets are sequences of raw rows as get_all_values() returns them   *)
(* (row 1 is the header row).  Session tables are sequences of typed rows  *)
(* as load_data_from_sheet_cached() builds them.  Every remote call of a   *)
(* handler may raise; a handler takes the number f of the remote call      *)
(* that raises (0: none does).                                             *)
(***************************************************************************)
EXTENDS Integers, Sequences, FiniteSets, TLC

(***************************************************************************)
(* Bounds of the model.                                                    *)
(***************************************************************************)
MaxTx == 2
MaxFixed == 2
MaxGoals == 1
MaxPlan == 2
MaxRows == 4
MaxSaved == 2
ThisYear == 2026
ThisMonth == 11
FirstDay == 24
LastDay == 26

ItemNames == {"Rent"}
GoalNames == {"Trip"}
Amounts == {1, 2}
\* the categories a user of the model picks among those the program offers
Categories == {"Food"}

(***************************************************************************)
(* Program constants.                                                      *)
(***************************************************************************)
PAYDAY == 25

lang == "Thai"
t(thai, eng) == IF lang = "Thai" THEN thai ELSE eng

CATEGORY_KEYS == <<"Food", "Travel", "Utilities", "Income", "Others", "Fixed Expense">>
CATEGORY_VALUES == <<"Ahan", "Doenthang", "Khongchai", "Raidai", "Uen-uen", "Khachaichai Pracham">>

CATEGORY_MAP(x) ==
    IF \E i \in 1..Len(CATEGORY_KEYS) : CATEGORY_KEYS[i] = x
    THEN CATEGORY_VALUES[CHOOSE i \in 1..Len(CATEGORY_KEYS) : CATEGORY_KEYS[i] = x]
    ELSE x

REVERSE_CATEGORY_MAP(x) ==
    IF \E i \in 1..Len(CATEGORY_VALUES) : CATEGORY_VALUES[i] = x
    THEN CATEGORY_KEYS[CHOOSE i \in 1..Len(CATEGORY_VALUES) : CATEGORY_VALUES[i] = x]
    ELSE x

STANDARD_COLS_MAIN == [header |-> <<"Date", "Type", "Category", "Amount", "Note">>]
STANDARD_COLS_FIXED == [header |-> <<"Name", "Amount">>]
STANDARD_COLS_SAVING_GOALS ==
    [header |-> <<"GoalName", "GoalAmount", "Emoji", "CurrentSaved", "TargetDate",
                  "SavingFrequency", "SavingAmountPerFreq">>]
STANDARD_COLS_MONTHLY_PLAN ==
    [header |-> <<"MonthYear", "ItemType", "ItemName", "Amount", "Category", "IsPaid", "DatePaid">>]

(***************************************************************************)
(* Dates.  A datetime is [year, month, day, tod]; tod = 0 is midnight and  *)
(* tod = 1 any later time of the day.  A date cell of a worksheet is the   *)
(* string the program wrote, kept with its format.                         *)
(***************************************************************************)
datetime(y, m, d) == [year |-> y, month |-> m, day |-> d, tod |-> 0]
NaT == [year |-> 0, month |-> 0, day |-> 0, tod |-> 0]
notna(x) == x # NaT

\* str(x.date()): "%Y-%m-%d", the time of day is dropped
str_date(x) == [fmt |-> "%Y-%m-%d", year |-> x.year, month |-> x.month, day |-> x.day, tod |-> 0]
\* str(x) of a Timestamp: "%Y-%m-%d %H:%M:%S[.%f]"
str_datetime(x) == [fmt |-> "%Y-%m-%d %H:%M:%S", year |-> x.year, month |-> x.month, day |-> x.day, tod |-> x.tod]
EmptyCell == [fmt |-> "", year |-> 0, month |-> 0, day |-> 0, tod |-> 0]

\* pd.to_datetime(cell, errors='coerce'), each cell parsed on its own
to_datetime(cell) ==
    IF cell.fmt = "" THEN NaT
    ELSE [year |-> cell.year, month |-> cell.month, day |-> cell.day, tod |-> cell.tod]

\* bool -> worksheet cell, and the loader's str(x).lower() == 'true'
bool_cell(b) == IF b THEN "TRUE" ELSE "FALSE"
to_bool(cell) == cell = "TRUE"

SameMonth(x, y) == x.year = y.year /\ x.month = y.month

IsLeap(y) == y % 4 = 0 /\ (y % 100 # 0 \/ y % 400 = 0)
days_in_month(y, m) ==
    IF m = 2 THEN (IF IsLeap(y) THEN 29 ELSE 28)
    ELSE IF m \in {4, 6, 9, 11} THEN 30 ELSE 31

DAYS_BEFORE_MONTH == <<0, 31, 59, 90, 120, 151, 181, 212, 243, 273, 304, 334>>
days_before_month(y, m) == DAYS_BEFORE_MONTH[m] + (IF m > 2 /\ IsLeap(y) THEN 1 ELSE 0)

\* date.toordinal()
toordinal(x) ==
    LET y == x.year - 1
    IN 365 * y + (y \div 4) - (y \div 100) + (y \div 400) + days_before_month(x.year, x.month) + x.day

\* (a - b).days: a timedelta's days are floored
timedelta_days(a, b) ==
    LET whole == toordinal(a) - toordinal(b)
    IN IF a.tod < b.tod THEN whole - 1 ELSE whole

(***************************************************************************)
(* The state.                                                              *)
(***************************************************************************)
VARIABLES
    today,                  \* datetime.today()
    sheet,                  \* worksheet of the transactions
    fixed_expenses_sheet,   \* worksheet "FixedExpenses"
    goals_sheet,            \* worksheet "SavingGoals"
    monthly_plans_sheet,    \* worksheet "MonthlyPlans"
    df_main,                \* st.session_state.df_main
    df_fixed_expenses,      \* st.session_state.df_fixed_expenses
    df_saving_goals,        \* st.session_state.df_saving_goals
    df_monthly_plans,       \* st.session_state.df_monthly_plans
    selected_plan_month,    \* the month chosen in "select_plan_month"
    metrics,                \* the values calculate_dashboard_metrics returned
    goal_cards,             \* the cards display_saving_goals rendered
    planned_expenses_view,  \* the planned expenses tab 4 rendered
    other_df_main,          \* st.session_state.df_main of a second browser session
    other_notice,           \* what the second session's last handler showed
    notice                  \* the handler that ran last and what it showed

vars == <<today, sheet, fixed_expenses_sheet, goals_sheet, monthly_plans_sheet,
          df_main, df_fixed_expenses, df_saving_goals, df_monthly_plans,
          selected_plan_month, metrics, goal_cards, planned_expenses_view, other_df_main,
          other_notice, notice>>

sheets == <<sheet, fixed_expenses_sheet, goals_sheet, monthly_plans_sheet>>
session == <<df_main, df_fixed_expenses, df_saving_goals, df_monthly_plans>>
other_session == <<other_df_main, other_notice>>

(***************************************************************************)
(* The part of the state space the model explores: every table within its  *)
(* own bound, all tables together within MaxRows rows, and the money saved *)
(* for a goal within MaxSaved.                                             *)
(***************************************************************************)
Rows(ws, df) == IF Len(ws) - 1 > Len(df) THEN Len(ws) - 1 ELSE Len(df)

WithinBounds ==
    /\ Rows(sheet, df_main) <= MaxTx
    /\ Rows(fixed_expenses_sheet, df_fixed_expenses) <= MaxFixed
    /\ Rows(goals_sheet, df_saving_goals) <= MaxGoals
    /\ Rows(monthly_plans_sheet, df_monthly_plans) <= MaxPlan
    /\ Rows(sheet, df_main) + Rows(fixed_expenses_sheet, df_fixed_expenses)
         + Rows(goals_sheet, df_saving_goals) + Rows(monthly_plans_sheet, df_monthly_plans) <= MaxRows
    /\ \A i \in 1..Len(df_saving_goals) : df_saving_goals[i].CurrentSaved <= MaxSaved

(***************************************************************************)
(* The worksheet collaborator (gspread).                                   *)
(***************************************************************************)
append_row(ws, row) == Append(ws, row)

\* ws.clear(); ws.append_row(header); ws.append_row(r) for r in rows, where the
\* f-th of these calls raises (f = 0 or f > 2 + Len(rows): none of them does)
clear_and_rewrite(ws, header, rows, f) ==
    IF f = 1 THEN ws
    ELSE IF f = 2 THEN <<>>
    ELSE IF f >= 3 /\ f <= 2 + Len(rows) THEN <<header>> \o SubSeq(rows, 1, f - 3)
    ELSE <<header>> \o rows

IsHeader(row, standard_cols) == "header" \in DOMAIN row /\ row = standard_cols

\* converted: the data rows with the type conversions of the table applied
load_data_from_sheet_cached(ws, standard_cols, converted, missing) ==
    IF ws = <<>> THEN <<>>
    ELSE IF IsHeader(Head(ws), standard_cols) THEN converted
    ELSE [i \in 1..(Len(ws) - 1) |-> missing]

(***************************************************************************)
(* The combined ledger and the dashboard metrics.                          *)
(***************************************************************************)
RECURSIVE Sum(_)
Sum(s) == IF s = <<>> THEN 0 ELSE Head(s) + Sum(Tail(s))

Amount_sum(df) == Sum([i \in 1..Len(df) |-> df[i].Amount])

\* NaT sorts last
DateLeq(a, b) ==
    \/ b = NaT
    \/ /\ a # NaT
       /\ \/ a.year < b.year
          \/ a.year = b.year /\ a.month < b.month
          \/ a.year = b.year /\ a.month = b.month /\ a.day < b.day
          \/ a.year = b.year /\ a.month = b.month /\ a.day = b.day /\ a.tod <= b.tod

RECURSIVE Insert(_, _)
Insert(sorted, row) ==
    IF sorted = <<>> THEN <<row>>
    ELSE IF DateLeq(Head(sorted).Date, row.Date) THEN <<Head(sorted)>> \o Insert(Tail(sorted), row)
    ELSE <<row>> \o sorted

RECURSIVE sort_values(_)
sort_values(df) == IF df = <<>> THEN <<>> ELSE Insert(sort_values(SubSeq(df, 1, Len(df) - 1)), df[Len(df)])

\* the fixed expenses as transaction rows, for the calculation only
df_fixed_expenses_for_calc(fixed, now) ==
    [i \in 1..Len(fixed) |->
        [Date |-> datetime(now.year, now.month, 1), Type |-> "Expense", Category |-> "Fixed Expense",
         Amount |-> fixed[i].Amount, Note |-> "Fixed Monthly Expense: " \o fixed[i].Name]]

df_combined(main, fixed, now) == sort_values(main \o df_fixed_expenses_for_calc(fixed, now))

\* a variant that rolls over to the next month on pay day itself
target_date_rolling_on_payday(now) ==
    IF now.day >= PAYDAY
    THEN (IF now.month = 12 THEN datetime(now.year + 1, 1, PAYDAY)
          ELSE datetime(now.year, now.month + 1, PAYDAY))
    ELSE datetime(now.year, now.month, PAYDAY)

target_date_for_daily_spend(now) ==
    IF now.day > PAYDAY
    THEN (IF now.month = 12 THEN datetime(now.year + 1, 1, PAYDAY)
          ELSE datetime(now.year, now.month + 1, PAYDAY))
    ELSE datetime(now.year, now.month, PAYDAY)

\* a float quotient num / den, kept as the pair (den > 0)
Quotient(num, den) == [num |-> num, den |-> den]
\* a variant of the test below that lets every quotient through
Never_negative(q) == FALSE
Negative(q) == q.num < 0

\* a variant that leaves the fixed expenses out of the remaining balance
calculate_dashboard_metrics_unreserved(df_combined_data, df_fixed_expenses_data, now) ==
    LET income == Amount_sum(SelectSeq(df_combined_data, LAMBDA r : r.Type = "Income"))
        expense == Amount_sum(SelectSeq(df_combined_data, LAMBDA r : r.Type = "Expense"))
        balance == income - expense
    IN [income |-> income, expense |-> expense, balance |-> balance,
        suggested_daily |-> Quotient(0, 1),
        total_fixed_expenses |-> Amount_sum(df_fixed_expenses_data),
        remaining_after_fixed |-> balance]

calculate_dashboard_metrics(df_combined_data, df_fixed_expenses_data, now) ==
    LET income == Amount_sum(SelectSeq(df_combined_data, LAMBDA r : r.Type = "Income"))
        expense == Amount_sum(SelectSeq(df_combined_data, LAMBDA r : r.Type = "Expense"))
        balance == income - expense
        total_fixed_expenses == Amount_sum(df_fixed_expenses_data)
        days == timedelta_days(target_date_for_daily_spend(now), now)
        days_until_25th == IF days <= 0 THEN 1 ELSE days
    IN [income |-> income, expense |-> expense, balance |-> balance,
        suggested_daily |-> IF Negative(Quotient(balance, days_until_25th)) THEN Quotient(0, 1)
                            ELSE Quotient(balance, days_until_25th),
        total_fixed_expenses |-> total_fixed_expenses,
        remaining_after_fixed |-> balance - total_fixed_expenses]

\* a variant of the card that tests the target date before the amounts
goal_card_date_first(goal, now) ==
    LET goal_amount == goal.GoalAmount
        current_saved == goal.CurrentSaved
        target_date == goal.TargetDate
        percent == IF goal_amount > 0 THEN Quotient(100 * current_saved, goal_amount) ELSE Quotient(0, 1)
        progress_percent == IF percent.num < 0 THEN Quotient(0, 1)
                            ELSE IF percent.num > 100 * percent.den THEN Quotient(100, 1)
                            ELSE percent
        days_remaining_for_goal ==
            IF notna(target_date)
            THEN timedelta_days(datetime(target_date.year, target_date.month, target_date.day),
                                datetime(now.year, now.month, now.day))
            ELSE 0
        status_text ==
            IF ~notna(target_date) THEN t("Wanthi paomai mai thuktong", "Invalid Target Date")
            ELSE IF current_saved >= goal_amount THEN t("Thueng pao laeo!", "Goal Reached!")
            ELSE IF days_remaining_for_goal < 0 THEN t("Koen kamnot", "Overdue")
            ELSE t("Luea", "Remaining") \o " " \o ToString(days_remaining_for_goal) \o " " \o t("wan", "days")
    IN [goal_name |-> goal.GoalName, goal_amount |-> goal_amount, current_saved |-> current_saved,
        progress_percent |-> progress_percent, status_text |-> status_text,
        target_date_display |-> IF notna(target_date) THEN str_date(target_date) ELSE EmptyCell,
        saving_amount_per_freq |-> goal.SavingAmountPerFreq]

\* a variant of the card whose progress is the bare ratio
goal_card_unclamped(goal, now) ==
    LET goal_amount == goal.GoalAmount
        current_saved == goal.CurrentSaved
        target_date == goal.TargetDate
        progress_percent == Quotient(100 * current_saved, goal_amount)
        days_remaining_for_goal ==
            IF notna(target_date)
            THEN timedelta_days(datetime(target_date.year, target_date.month, target_date.day),
                                datetime(now.year, now.month, now.day))
            ELSE 0
        status_text ==
            IF current_saved >= goal_amount THEN t("Thueng pao laeo!", "Goal Reached!")
            ELSE IF ~notna(target_date) THEN t("Wanthi paomai mai thuktong", "Invalid Target Date")
            ELSE IF days_remaining_for_goal < 0 THEN t("Koen kamnot", "Overdue")
            ELSE t("Luea", "Remaining") \o " " \o ToString(days_remaining_for_goal) \o " " \o t("wan", "days")
    IN [goal_name |-> goal.GoalName, goal_amount |-> goal_amount, current_saved |-> current_saved,
        progress_percent |-> progress_percent, status_text |-> status_text,
        target_date_display |-> IF notna(target_date) THEN str_date(target_date) ELSE EmptyCell,
        saving_amount_per_freq |-> goal.SavingAmountPerFreq]

\* the card of one goal: progress clamped to 0..100, the status line
goal_card(goal, now) ==
    LET goal_amount == goal.GoalAmount
        current_saved == goal.CurrentSaved
        target_date == goal.TargetDate
        percent == IF goal_amount > 0 THEN Quotient(100 * current_saved, goal_amount) ELSE Quotient(0, 1)
        progress_percent == IF percent.num < 0 THEN Quotient(0, 1)
                            ELSE IF percent.num > 100 * percent.den THEN Quotient(100, 1)
                            ELSE percent
        days_remaining_for_goal ==
            IF notna(target_date)
            THEN timedelta_days(datetime(target_date.year, target_date.month, target_date.day),
                                datetime(now.year, now.month, now.day))
            ELSE 0
        status_text ==
            IF current_saved >= goal_amount THEN t("Thueng pao laeo!", "Goal Reached!")
            ELSE IF ~notna(target_date) THEN t("Wanthi paomai mai thuktong", "Invalid Target Date")
            ELSE IF days_remaining_for_goal < 0 THEN t("Koen kamnot", "Overdue")
            ELSE t("Luea", "Remaining") \o " " \o ToString(days_remaining_for_goal) \o " " \o t("wan", "days")
    IN [goal_name |-> goal.GoalName, goal_amount |-> goal_amount, current_saved |-> current_saved,
        progress_percent |-> progress_percent, status_text |-> status_text,
        target_date_display |-> IF notna(target_date) THEN str_date(target_date) ELSE EmptyCell,
        saving_amount_per_freq |-> goal.SavingAmountPerFreq]

display_saving_goals(df_goals, now) == [idx \in 1..Len(df_goals) |-> goal_card(df_goals[idx], now)]

(***************************************************************************)
(* Tab 4: the monthly plan.                                                *)
(***************************************************************************)
ConvertPlan(r) ==
    [MonthYear |-> to_datetime(r.MonthYear), ItemType |-> r.ItemType, ItemName |-> r.ItemName,
     Amount |-> r.Amount, Category |-> r.Category, IsPaid |-> to_bool(r.IsPaid),
     DatePaid |-> to_datetime(r.DatePaid)]

MissingPlan ==
    [MonthYear |-> NaT, ItemType |-> "", ItemName |-> "", Amount |-> 0, Category |-> "",
     IsPaid |-> FALSE, DatePaid |-> NaT]

\* the reload of df_monthly_plans, with its dropna(subset=['MonthYear'])
load_monthly_plans(ws) ==
    SelectSeq(load_data_from_sheet_cached(ws, STANDARD_COLS_MONTHLY_PLAN,
        [i \in 1..(Len(ws) - 1) |-> ConvertPlan(ws[i + 1])], MissingPlan),
              LAMBDA r : notna(r.MonthYear))

\* the row the two plan forms write: DatePaid as str(row['DatePaid'].date())
plan_row_date(row) ==
    [MonthYear |-> str_date(row.MonthYear), ItemType |-> row.ItemType, ItemName |-> row.ItemName,
     Amount |-> row.Amount, Category |-> row.Category, IsPaid |-> bool_cell(row.IsPaid),
     DatePaid |-> IF notna(row.DatePaid) THEN str_date(row.DatePaid) ELSE EmptyCell]

\* a variant that stamps every paid row with the time of the write
plan_row_restamped(row) ==
    [MonthYear |-> str_date(row.MonthYear), ItemType |-> row.ItemType, ItemName |-> row.ItemName,
     Amount |-> row.Amount, Category |-> row.Category, IsPaid |-> bool_cell(row.IsPaid),
     DatePaid |-> IF row.IsPaid THEN str_datetime(today) ELSE EmptyCell]

\* the row "Update Payment Status" writes: DatePaid as str(row['DatePaid'])
plan_row_datetime(row) ==
    [MonthYear |-> str_date(row.MonthYear), ItemType |-> row.ItemType, ItemName |-> row.ItemName,
     Amount |-> row.Amount, Category |-> row.Category, IsPaid |-> bool_cell(row.IsPaid),
     DatePaid |-> IF notna(row.DatePaid) THEN str_datetime(row.DatePaid) ELSE EmptyCell]

next_month_date_obj ==
    IF today.month = 12 THEN datetime(today.year + 1, 1, 1)
    ELSE datetime(today.year, today.month + 1, 1)

current_period == datetime(today.year, today.month, 1)

all_plan_months_periods ==
    {datetime(df_monthly_plans[i].MonthYear.year, df_monthly_plans[i].MonthYear.month, 1) :
        i \in 1..Len(df_monthly_plans)} \cup {current_period, next_month_date_obj}

InBucket(r, month) == SameMonth(r.MonthYear, month)

current_month_plan_df == SelectSeq(df_monthly_plans, LAMBDA r : InBucket(r, selected_plan_month))

existing_planned_expenses == SelectSeq(current_month_plan_df, LAMBDA r : r.ItemType = "Expense")

\* a variant that projects every fixed expense, whatever the bucket holds
fixed_expenses_all_to_add ==
    LET missing == df_fixed_expenses
    IN [i \in 1..Len(missing) |->
           [MonthYear |-> selected_plan_month, ItemType |-> "Expense", ItemName |-> missing[i].Name,
            Amount |-> missing[i].Amount, Category |-> "Fixed Expense", IsPaid |-> FALSE,
            DatePaid |-> NaT]]

\* the fixed expenses that have no planned expense of their name and of category
\* "Fixed Expense" in the bucket, as plan rows
fixed_expenses_to_add ==
    LET missing == SelectSeq(df_fixed_expenses, LAMBDA fx :
                       ~ \E i \in 1..Len(existing_planned_expenses) :
                            /\ existing_planned_expenses[i].ItemName = fx.Name
                            /\ existing_planned_expenses[i].Category = "Fixed Expense")
    IN [i \in 1..Len(missing) |->
           [MonthYear |-> selected_plan_month, ItemType |-> "Expense", ItemName |-> missing[i].Name,
            Amount |-> missing[i].Amount, Category |-> "Fixed Expense", IsPaid |-> FALSE,
            DatePaid |-> NaT]]

\* a plan row as the editors show it: the category in its display form
editor_row(r) ==
    [ItemName |-> r.ItemName, Amount |-> r.Amount, Category |-> CATEGORY_MAP(r.Category),
     IsPaid |-> r.IsPaid]

initial_planned_expenses_for_editor ==
    [i \in 1..Len(existing_planned_expenses) |-> editor_row(existing_planned_expenses[i])]
    \o [i \in 1..Len(fixed_expenses_to_add) |-> editor_row(fixed_expenses_to_add[i])]

\* what tab 4 renders of the selected bucket: its planned expenses, the fixed expenses
\* projected into it, and the table the planned-expenses editor starts from
render_planned_expenses ==
    [existing |-> existing_planned_expenses, to_add |-> fixed_expenses_to_add,
     editor |-> initial_planned_expenses_for_editor]

\* st.rerun(): the script runs again, recomputes the dashboard, renders the goal cards and
\* the plan tab; the session state of another browser session is not touched
Rerun ==
    /\ metrics' = calculate_dashboard_metrics(df_combined(df_main', df_fixed_expenses', today'),
                                              df_fixed_expenses', today')
    /\ goal_cards' = display_saving_goals(df_saving_goals', today')
    /\ planned_expenses_view' = render_planned_expenses'
    /\ UNCHANGED other_session

\* the categories the planned-expenses editor offers: all but "Fixed Expense"
planned_category_options ==
    {t(CATEGORY_VALUES[i], CATEGORY_KEYS[i]) :
        i \in {j \in 1..Len(CATEGORY_KEYS) : CATEGORY_KEYS[j] # "Fixed Expense"}}

(***************************************************************************)
(* Transactions.                                                           *)
(***************************************************************************)
ConvertMain(r) ==
    [Date |-> to_datetime(r.Date),
     Type |-> IF r.Type = "Rairap" THEN "Income" ELSE IF r.Type = "Raichai" THEN "Expense" ELSE r.Type,
     Category |-> REVERSE_CATEGORY_MAP(r.Category), Amount |-> r.Amount, Note |-> r.Note]

MissingMain == [Date |-> NaT, Type |-> "", Category |-> "", Amount |-> 0, Note |-> ""]

\* the reload of df_main, with its mapping of the type and category labels
load_main(ws) == load_data_from_sheet_cached(ws, STANDARD_COLS_MAIN,
        [i \in 1..(Len(ws) - 1) |-> ConvertMain(ws[i + 1])], MissingMain)

(***************************************************************************)
(* st.data_editor over the planned expenses (num_rows="dynamic", IsPaid    *)
(* disabled): rows deleted, cells edited, rows added at the end.           *)
(***************************************************************************)
EditorAmounts == Amounts \cup {0}

\* the categories a user picks in the editor, in their display form
editor_categories == {o \in planned_category_options : REVERSE_CATEGORY_MAP(o) \in Categories}

\* one edited cell of a row
RowEdits(r, names, amounts) ==
    {[r EXCEPT !.ItemName = n] : n \in names}
    \cup {[r EXCEPT !.Amount = a] : a \in amounts \cup {0}}
    \cup {[r EXCEPT !.Category = c] : c \in editor_categories}

AddedRows(names, amounts) ==
    {[ItemName |-> n, Amount |-> a, Category |-> c, IsPaid |-> FALSE] :
        n \in names, a \in amounts, c \in editor_categories}

Remove(s, i) == SubSeq(s, 1, i - 1) \o SubSeq(s, i + 1, Len(s))

\* what the editor returns: the table as shown, or with one row edited, deleted or added
planned_expenses_editor(names, amounts) ==
    LET shown == initial_planned_expenses_for_editor
    IN {shown}
       \cup UNION {{[shown EXCEPT ![i] = e] : e \in RowEdits(shown[i], names, amounts)} : i \in 1..Len(shown)}
       \cup {Remove(shown, i) : i \in 1..Len(shown)}
       \cup {Append(shown, r) : r \in AddedRows(names, amounts)}

(***************************************************************************)
(* "Save Expected Income" (plan_income_form).                              *)
(***************************************************************************)
PlanWriteCalls(rows) == Len(rows) + 3   \* clear, header, the rows, the reload

\* a variant that keeps the Income row the bucket had
plan_income_form_appending(new_planned_income, f) ==
    LET df_monthly_plans_updated == df_monthly_plans
        new_income_row ==
            [MonthYear |-> selected_plan_month, ItemType |-> "Income", ItemName |-> "Expected Salary",
             Amount |-> new_planned_income, Category |-> "", IsPaid |-> FALSE, DatePaid |-> NaT]
        in_memory == Append(df_monthly_plans_updated, new_income_row)
        rows == [i \in 1..Len(in_memory) |-> plan_row_date(in_memory[i])]
        ws == clear_and_rewrite(monthly_plans_sheet, STANDARD_COLS_MONTHLY_PLAN, rows, f)
    IN /\ f \in 0..PlanWriteCalls(rows)
       /\ monthly_plans_sheet' = ws
       /\ df_monthly_plans' = IF f = 0 THEN load_monthly_plans(ws) ELSE in_memory
       /\ notice' = [op |-> "plan_income_form", result |-> IF f = 0 THEN "success" ELSE "error"]
       /\ UNCHANGED <<today, sheet, fixed_expenses_sheet, goals_sheet, df_main, df_fixed_expenses,
                      df_saving_goals, selected_plan_month>>
       /\ Rerun
       /\ WithinBounds'

plan_income_form(new_planned_income, f) ==
    LET df_monthly_plans_updated ==
            SelectSeq(df_monthly_plans,
                      LAMBDA r : ~(InBucket(r, selected_plan_month) /\ r.ItemType = "Income"))
        new_income_row ==
            [MonthYear |-> selected_plan_month, ItemType |-> "Income", ItemName |-> "Expected Salary",
             Amount |-> new_planned_income, Category |-> "", IsPaid |-> FALSE, DatePaid |-> NaT]
        in_memory == Append(df_monthly_plans_updated, new_income_row)
        rows == [i \in 1..Len(in_memory) |-> plan_row_date(in_memory[i])]
        ws == clear_and_rewrite(monthly_plans_sheet, STANDARD_COLS_MONTHLY_PLAN, rows, f)
    IN /\ f \in 0..PlanWriteCalls(rows)
       /\ monthly_plans_sheet' = ws
       /\ df_monthly_plans' = IF f = 0 THEN load_monthly_plans(ws) ELSE in_memory
       /\ notice' = [op |-> "plan_income_form", result |-> IF f = 0 THEN "success" ELSE "error"]
       /\ UNCHANGED <<today, sheet, fixed_expenses_sheet, goals_sheet, df_main, df_fixed_expenses,
                      df_saving_goals, selected_plan_month>>
       /\ Rerun
       /\ WithinBounds'

(***************************************************************************)
(* "Save Planned Expenses".                                                *)
(***************************************************************************)
updated_expense_plan_rows(edited) ==
    LET valid == SelectSeq(edited, LAMBDA row : row.Amount > 0)
    IN [i \in 1..Len(valid) |->
           LET row == valid[i]
               category_to_save == REVERSE_CATEGORY_MAP(row.Category)
               existing_item ==
                   SelectSeq(current_month_plan_df,
                             LAMBDA r : r.ItemName = row.ItemName /\ r.Category = category_to_save)
           IN [MonthYear |-> selected_plan_month, ItemType |-> "Expense",
               ItemName |-> row.ItemName, Amount |-> row.Amount, Category |-> category_to_save,
               IsPaid |-> IF existing_item # <<>> THEN existing_item[1].IsPaid ELSE FALSE,
               DatePaid |-> IF existing_item # <<>> THEN existing_item[1].DatePaid ELSE NaT]]

save_planned_expenses(edited, f) ==
    LET df_monthly_plans_updated ==
            SelectSeq(df_monthly_plans,
                      LAMBDA r : ~(InBucket(r, selected_plan_month) /\ r.ItemType = "Expense"))
        in_memory == df_monthly_plans_updated \o updated_expense_plan_rows(edited)
        rows == [i \in 1..Len(in_memory) |-> plan_row_date(in_memory[i])]
        ws == clear_and_rewrite(monthly_plans_sheet, STANDARD_COLS_MONTHLY_PLAN, rows, f)
    IN /\ f \in 0..PlanWriteCalls(rows)
       /\ monthly_plans_sheet' = ws
       /\ df_monthly_plans' = IF f = 0 THEN load_monthly_plans(ws) ELSE in_memory
       /\ notice' = [op |-> "save_planned_expenses", result |-> IF f = 0 THEN "success" ELSE "error"]
       /\ UNCHANGED <<today, sheet, fixed_expenses_sheet, goals_sheet, df_main, df_fixed_expenses,
                      df_saving_goals, selected_plan_month>>
       /\ Rerun
       /\ WithinBounds'

(***************************************************************************)
(* "Update Payment Status" (Monthly Payment Management).                   *)
(***************************************************************************)
current_month_actionable_expenses ==
    SelectSeq(df_monthly_plans,
              LAMBDA r : SameMonth(r.MonthYear, today) /\ r.ItemType = "Expense" /\ r.IsPaid = FALSE)

\* the actionable rows as the editor returns them, with the ticked checkboxes
actionable_editor(checks) ==
    [i \in 1..Len(current_month_actionable_expenses) |->
        [editor_row(current_month_actionable_expenses[i]) EXCEPT !.IsPaid = checks[i]]]

Min(S) == CHOOSE x \in S : \A y \in S : x <= y

payment_row(category, amount, name) ==
    [Date |-> str_date(today), Type |-> "Expense", Category |-> category, Amount |-> amount,
     Note |-> "Paid planned expense: " \o name]

RECURSIVE pay_rows(_, _, _, _, _, _)
\* the loop over the editor's rows from row i on; calls counts the remote calls made
pay_rows(i, temp, plans, ws, calls, f) ==
    IF i > Len(temp) THEN [plans |-> plans, ws |-> ws, calls |-> calls, raised |-> FALSE]
    ELSE LET row == temp[i]
             original_category_canonical == REVERSE_CATEGORY_MAP(row.Category)
             mask == {j \in 1..Len(plans) :
                        /\ SameMonth(plans[j].MonthYear, today)
                        /\ plans[j].ItemType = "Expense"
                        /\ plans[j].ItemName = row.ItemName
                        /\ plans[j].Category = original_category_canonical
                        /\ plans[j].Amount = row.Amount}
         IN IF ~row.IsPaid THEN pay_rows(i + 1, temp, plans, ws, calls, f)
            ELSE IF mask = {} THEN [plans |-> plans, ws |-> ws, calls |-> calls, raised |-> TRUE]
            ELSE IF plans[Min(mask)].IsPaid THEN pay_rows(i + 1, temp, plans, ws, calls, f)
            ELSE LET paid == [j \in 1..Len(plans) |->
                                 IF j \in mask
                                 THEN [plans[j] EXCEPT !.IsPaid = TRUE, !.DatePaid = today]
                                 ELSE plans[j]]
                 IN IF calls + 1 = f
                    THEN [plans |-> paid, ws |-> ws, calls |-> calls + 1, raised |-> TRUE]
                    ELSE pay_rows(i + 1, temp, paid,
                                  append_row(ws, payment_row(original_category_canonical,
                                                             row.Amount, row.ItemName)),
                                  calls + 1, f)

\* a variant that shows the section whatever month is viewed
payment_management_shown_any_month ==
    today.day >= PAYDAY

payment_management_shown ==
    today.day >= PAYDAY /\ SameMonth(selected_plan_month, today)

\* a variant that does not reload the transactions after a successful update
update_payment_status_stale(checks, f) ==
    LET loop == pay_rows(1, actionable_editor(checks), df_monthly_plans, sheet, 0, f)
        ok == pay_rows(1, actionable_editor(checks), df_monthly_plans, sheet, 0, 0)
        rows == [i \in 1..Len(loop.plans) |-> plan_row_datetime(loop.plans[i])]
        g == IF f > loop.calls THEN f - loop.calls ELSE 0
        ws == clear_and_rewrite(monthly_plans_sheet, STANDARD_COLS_MONTHLY_PLAN, rows, g)
    IN /\ payment_management_shown
       /\ current_month_actionable_expenses # <<>>
       /\ f \in 0..(ok.calls + Len(rows) + 4)
       /\ sheet' = loop.ws
       /\ monthly_plans_sheet' = IF loop.raised THEN monthly_plans_sheet ELSE ws
       /\ df_monthly_plans' =
             IF ~loop.raised /\ (g = 0 \/ g > Len(rows) + 3) THEN load_monthly_plans(ws) ELSE loop.plans
       /\ df_main' = df_main
       /\ notice' = [op |-> "update_payment_status",
                     result |-> IF ~loop.raised /\ g = 0 THEN "success" ELSE "error"]
       /\ UNCHANGED <<today, fixed_expenses_sheet, goals_sheet, df_fixed_expenses, df_saving_goals,
                      selected_plan_month>>
       /\ Rerun
       /\ WithinBounds'

update_payment_status(checks, f) ==
    LET loop == pay_rows(1, actionable_editor(checks), df_monthly_plans, sheet, 0, f)
        ok == pay_rows(1, actionable_editor(checks), df_monthly_plans, sheet, 0, 0)
        rows == [i \in 1..Len(loop.plans) |-> plan_row_datetime(loop.plans[i])]
        g == IF f > loop.calls THEN f - loop.calls ELSE 0
        ws == clear_and_rewrite(monthly_plans_sheet, STANDARD_COLS_MONTHLY_PLAN, rows, g)
    IN /\ payment_management_shown
       /\ current_month_actionable_expenses # <<>>
       /\ f \in 0..(ok.calls + Len(rows) + 4)
       /\ sheet' = loop.ws
       /\ monthly_plans_sheet' = IF loop.raised THEN monthly_plans_sheet ELSE ws
       /\ df_monthly_plans' =
             IF ~loop.raised /\ (g = 0 \/ g > Len(rows) + 3) THEN load_monthly_plans(ws) ELSE loop.plans
       /\ df_main' = IF ~loop.raised /\ g = 0 THEN load_main(loop.ws) ELSE df_main
       /\ notice' = [op |-> "update_payment_status",
                     result |-> IF ~loop.raised /\ g = 0 THEN "success" ELSE "error"]
       /\ UNCHANGED <<today, fixed_expenses_sheet, goals_sheet, df_fixed_expenses, df_saving_goals,
                      selected_plan_month>>
       /\ Rerun
       /\ WithinBounds'


(***************************************************************************)
(* Tab 2: the fixed monthly expenses.                                      *)
(***************************************************************************)
ConvertFixed(r) == [Name |-> r.Name, Amount |-> r.Amount]
MissingFixed == [Name |-> "", Amount |-> 0]

load_fixed_expenses(ws) ==
    load_data_from_sheet_cached(ws, STANDARD_COLS_FIXED,
        [i \in 1..(Len(ws) - 1) |-> ConvertFixed(ws[i + 1])], MissingFixed)

add_fixed_expense_form(fixed_name, fixed_amount, f) ==
    /\ f \in 0..2   \* the append, the reload
    /\ IF fixed_name # "" /\ fixed_amount > 0
       THEN LET ws == IF f = 1 THEN fixed_expenses_sheet
                      ELSE append_row(fixed_expenses_sheet, [Name |-> fixed_name, Amount |-> fixed_amount])
            IN /\ fixed_expenses_sheet' = ws
               /\ df_fixed_expenses' = IF f = 0 THEN load_fixed_expenses(ws) ELSE df_fixed_expenses
               /\ notice' = [op |-> "add_fixed_expense_form", result |-> IF f = 0 THEN "success" ELSE "error"]
       ELSE /\ f = 0
            /\ notice' = [op |-> "add_fixed_expense_form", result |-> "warning"]
            /\ UNCHANGED <<fixed_expenses_sheet, df_fixed_expenses>>
    /\ UNCHANGED <<today, sheet, goals_sheet, monthly_plans_sheet, df_main, df_saving_goals,
                   df_monthly_plans, selected_plan_month>>
    /\ Rerun
    /\ WithinBounds'

\* one edit in the "fixed_expenses_editor": the edited table replaces the session's
fixed_expenses_editor(amounts) ==
    {[df_fixed_expenses EXCEPT ![i].Amount = a] : i \in 1..Len(df_fixed_expenses), a \in amounts}
    \cup {Remove(df_fixed_expenses, i) : i \in 1..Len(df_fixed_expenses)}

edit_fixed_expenses(edited_fixed_df) ==
    /\ df_fixed_expenses # <<>>
    /\ edited_fixed_df # df_fixed_expenses
    /\ df_fixed_expenses' = edited_fixed_df
    /\ notice' = [op |-> "fixed_expenses_editor", result |-> ""]
    /\ UNCHANGED <<today, sheets, df_main, df_saving_goals, df_monthly_plans, selected_plan_month>>
    /\ Rerun
    /\ WithinBounds'

save_fixed_expenses(f) ==
    LET rows == SelectSeq(df_fixed_expenses, LAMBDA row : row.Amount > 0)
        ws == clear_and_rewrite(fixed_expenses_sheet, STANDARD_COLS_FIXED, rows, f)
    IN /\ df_fixed_expenses # <<>>
       /\ f \in 0..(Len(rows) + 3)
       /\ fixed_expenses_sheet' = ws
       /\ df_fixed_expenses' = IF f = 0 THEN load_fixed_expenses(ws) ELSE df_fixed_expenses
       /\ notice' = [op |-> "save_fixed_expenses", result |-> IF f = 0 THEN "success" ELSE "error"]
       /\ UNCHANGED <<today, sheet, goals_sheet, monthly_plans_sheet, df_main, df_saving_goals,
                      df_monthly_plans, selected_plan_month>>
       /\ Rerun
       /\ WithinBounds'

(***************************************************************************)
(* Tab 1: the entry form.  Tab 3: all entries, with "Save Main Entries".   *)
(***************************************************************************)
type_display(x) == IF x = "Income" THEN t("Rairap", "Income") ELSE t("Raichai", "Expense")

entry_form(date, entry_type_selected, category_selected_display, amount, note, f) ==
    LET type_to_save == IF entry_type_selected = t("Rairap", "Income") THEN "Income" ELSE "Expense"
        category_to_save == REVERSE_CATEGORY_MAP(category_selected_display)
        row == [Date |-> str_date(date), Type |-> type_to_save, Category |-> category_to_save,
                Amount |-> amount, Note |-> note]
        ws == IF f = 1 THEN sheet ELSE append_row(sheet, row)
    IN /\ f \in 0..2   \* the append, the reload
       /\ sheet' = ws
       /\ df_main' = IF f = 0 THEN load_main(ws) ELSE df_main
       /\ notice' = [op |-> "entry_form", result |-> IF f = 0 THEN "success" ELSE "error"]
       /\ UNCHANGED <<today, fixed_expenses_sheet, goals_sheet, monthly_plans_sheet,
                      df_fixed_expenses, df_saving_goals, df_monthly_plans, selected_plan_month>>
       /\ Rerun
       /\ WithinBounds'

\* the entry form submitted in a second browser session on the same spreadsheet: that
\* session appends and reloads its own copy; this session is not rerun
other_entry_form(date, entry_type_selected, category_selected_display, amount, note) ==
    LET type_to_save == IF entry_type_selected = t("Rairap", "Income") THEN "Income" ELSE "Expense"
        category_to_save == REVERSE_CATEGORY_MAP(category_selected_display)
        row == [Date |-> str_date(date), Type |-> type_to_save, Category |-> category_to_save,
                Amount |-> amount, Note |-> note]
    IN /\ sheet' = append_row(sheet, row)
       /\ other_df_main' = load_main(sheet')
       /\ other_notice' = [op |-> "entry_form", result |-> "success"]
       /\ UNCHANGED <<today, fixed_expenses_sheet, goals_sheet, monthly_plans_sheet, session,
                      selected_plan_month, metrics, goal_cards, planned_expenses_view, notice>>
       /\ WithinBounds'

\* a variant that shows the combined ledger, fixed expenses included
df_display_combined(main) ==
    LET combined == df_combined(main, df_fixed_expenses, today)
    IN [i \in 1..Len(combined) |->
           [Date |-> IF notna(combined[i].Date) THEN str_date(combined[i].Date) ELSE EmptyCell,
            Type |-> type_display(combined[i].Type), Category |-> CATEGORY_MAP(combined[i].Category),
            Amount |-> combined[i].Amount, Note |-> combined[i].Note]]

\* df_main as tab 3 shows it: the date as '%Y-%m-%d' text, type and category in display form
df_display_main(main) ==
    [i \in 1..Len(main) |->
        [Date |-> IF notna(main[i].Date) THEN str_date(main[i].Date) ELSE EmptyCell,
         Type |-> type_display(main[i].Type), Category |-> CATEGORY_MAP(main[i].Category),
         Amount |-> main[i].Amount, Note |-> main[i].Note]]

\* what "main_entries_editor" returns: the table as shown, or with one amount edited or one
\* row deleted
main_entries_editor(amounts) ==
    LET shown == df_display_main(df_main)
    IN {shown}
       \cup {[shown EXCEPT ![i].Amount = a] : i \in 1..Len(shown), a \in amounts}
       \cup {Remove(shown, i) : i \in 1..Len(shown)}

\* the rows "Save Main Entries" writes: those whose date reads as '%Y-%m-%d'
main_rows_to_save(edited) ==
    LET valid == SelectSeq(edited, LAMBDA row : row.Date.fmt = "%Y-%m-%d")
    IN [i \in 1..Len(valid) |->
           [Date |-> valid[i].Date,
            Type |-> IF valid[i].Type = t("Rairap", "Income") THEN "Income" ELSE "Expense",
            Category |-> REVERSE_CATEGORY_MAP(valid[i].Category),
            Amount |-> valid[i].Amount, Note |-> valid[i].Note]]

\* a variant that keeps the rows appended to the worksheet since this session loaded it
save_main_entries_keeping_appended(df_main_edited_temp, f) ==
    LET appended == SubSeq(sheet, Len(df_main) + 2, Len(sheet))
        rows == main_rows_to_save(df_main_edited_temp) \o appended
        ws == clear_and_rewrite(sheet, STANDARD_COLS_MAIN, rows, f)
    IN /\ f \in 0..(Len(rows) + 3)
       /\ sheet' = ws
       /\ df_main' = IF f = 0 THEN load_main(ws) ELSE df_main
       /\ notice' = [op |-> "save_main_entries", result |-> IF f = 0 THEN "success" ELSE "error"]
       /\ UNCHANGED <<today, fixed_expenses_sheet, goals_sheet, monthly_plans_sheet,
                      df_fixed_expenses, df_saving_goals, df_monthly_plans, selected_plan_month>>
       /\ Rerun
       /\ WithinBounds'

save_main_entries(df_main_edited_temp, f) ==
    LET rows == main_rows_to_save(df_main_edited_temp)
        ws == clear_and_rewrite(sheet, STANDARD_COLS_MAIN, rows, f)
    IN /\ f \in 0..(Len(rows) + 3)   \* clear, header, the rows, the reload
       /\ sheet' = ws
       /\ df_main' = IF f = 0 THEN load_main(ws) ELSE df_main
       /\ notice' = [op |-> "save_main_entries", result |-> IF f = 0 THEN "success" ELSE "error"]
       /\ UNCHANGED <<today, fixed_expenses_sheet, goals_sheet, monthly_plans_sheet,
                      df_fixed_expenses, df_saving_goals, df_monthly_plans, selected_plan_month>>
       /\ Rerun
       /\ WithinBounds'

(***************************************************************************)
(* The saving goals.                                                       *)
(***************************************************************************)
EMOJI_DEFAULT == "money bag"

ConvertGoal(r) ==
    [GoalName |-> r.GoalName, GoalAmount |-> r.GoalAmount, Emoji |-> r.Emoji,
     CurrentSaved |-> r.CurrentSaved, TargetDate |-> to_datetime(r.TargetDate),
     SavingFrequency |-> r.SavingFrequency, SavingAmountPerFreq |-> r.SavingAmountPerFreq]

MissingGoal ==
    [GoalName |-> "", GoalAmount |-> 0, Emoji |-> "", CurrentSaved |-> 0, TargetDate |-> NaT,
     SavingFrequency |-> "", SavingAmountPerFreq |-> Quotient(0, 1)]

load_saving_goals(ws) ==
    load_data_from_sheet_cached(ws, STANDARD_COLS_SAVING_GOALS,
        [i \in 1..(Len(ws) - 1) |-> ConvertGoal(ws[i + 1])], MissingGoal)

\* a variant of the form's computation that takes a week for a day
saving_amount_weekly_as_daily(goal_amount, target_date, saving_frequency) ==
    LET days_to_target == timedelta_days(target_date, datetime(today.year, today.month, today.day))
    IN IF days_to_target > 0 /\ goal_amount > 0
       THEN IF saving_frequency = "Daily" THEN Quotient(goal_amount, days_to_target)
            ELSE IF saving_frequency = "Weekly" THEN Quotient(goal_amount, days_to_target)
            ELSE IF saving_frequency = "Monthly" THEN Quotient(3044 * goal_amount, 100 * days_to_target)
            ELSE Quotient(0, 1)
       ELSE Quotient(0, 1)

\* the amount to save per period that the "Add New Goal" form computes
saving_amount_per_freq(goal_amount, target_date, saving_frequency) ==
    LET days_to_target == timedelta_days(target_date, datetime(today.year, today.month, today.day))
    IN IF days_to_target > 0 /\ goal_amount > 0
       THEN IF saving_frequency = "Daily" THEN Quotient(goal_amount, days_to_target)
            ELSE IF saving_frequency = "Weekly" THEN Quotient(7 * goal_amount, days_to_target)
            ELSE IF saving_frequency = "Monthly" THEN Quotient(3044 * goal_amount, 100 * days_to_target)
            ELSE Quotient(0, 1)
       ELSE Quotient(0, 1)

add_new_goal_form(goal_name, goal_amount, target_date, saving_frequency, f) ==
    LET row == [GoalName |-> goal_name, GoalAmount |-> goal_amount, Emoji |-> EMOJI_DEFAULT,
                CurrentSaved |-> 0, TargetDate |-> str_date(target_date),
                SavingFrequency |-> saving_frequency,
                SavingAmountPerFreq |-> saving_amount_per_freq(goal_amount, target_date, saving_frequency)]
        ws == IF f = 1 THEN goals_sheet ELSE append_row(goals_sheet, row)
    IN /\ goal_name # "" /\ goal_amount > 0
       /\ f \in 0..2   \* the append, the reload
       /\ goals_sheet' = ws
       /\ df_saving_goals' = IF f = 0 THEN load_saving_goals(ws) ELSE df_saving_goals
       /\ notice' = [op |-> "add_new_goal_form", result |-> IF f = 0 THEN "success" ELSE "error"]
       /\ UNCHANGED <<today, sheet, fixed_expenses_sheet, monthly_plans_sheet, df_main,
                      df_fixed_expenses, df_monthly_plans, selected_plan_month>>
       /\ Rerun
       /\ WithinBounds'

goal_options_for_save == [i \in 1..Len(df_saving_goals) |-> <<df_saving_goals[i].Emoji, df_saving_goals[i].GoalName>>]

\* the row of a goal as "Save Money Now" writes it: the target date as str(x.date())
goal_row(row) ==
    [GoalName |-> row.GoalName, GoalAmount |-> row.GoalAmount, Emoji |-> row.Emoji,
     CurrentSaved |-> row.CurrentSaved,
     TargetDate |-> IF notna(row.TargetDate) THEN str_date(row.TargetDate) ELSE EmptyCell,
     SavingFrequency |-> row.SavingFrequency, SavingAmountPerFreq |-> row.SavingAmountPerFreq]

saving_row(goal_name, amount) ==
    [Date |-> str_date(today), Type |-> "Expense", Category |-> "Saving Goal: " \o goal_name,
     Amount |-> amount, Note |-> "Saved for goal: " \o goal_name]

\* "Save Money Now": k is the option picked in "goal_selector_for_save"
save_money_to_goal_section(k, save_amount_for_goal, f) ==
    LET selected_goal_row_idx ==
            Min({i \in 1..Len(df_saving_goals) : goal_options_for_save[i] = goal_options_for_save[k]})
        goal_to_update == df_saving_goals[selected_goal_row_idx]
        in_memory == [df_saving_goals EXCEPT ![selected_goal_row_idx].CurrentSaved = @ + save_amount_for_goal]
        main_ws == IF f = 1 THEN sheet
                   ELSE append_row(sheet, saving_row(goal_to_update.GoalName, save_amount_for_goal))
        rows == [i \in 1..Len(in_memory) |-> goal_row(in_memory[i])]
        goals_ws == IF f = 1 THEN goals_sheet
                    ELSE clear_and_rewrite(goals_sheet, STANDARD_COLS_SAVING_GOALS, rows,
                                           IF f = 0 THEN 0 ELSE f - 1)
    IN /\ k \in 1..Len(df_saving_goals)
       /\ save_amount_for_goal > 0
       /\ f \in 0..(Len(rows) + 5)   \* the transaction, clear, header, the rows, the two reloads
       /\ sheet' = main_ws
       /\ goals_sheet' = goals_ws
       /\ df_main' = IF f = 0 \/ f = Len(rows) + 5 THEN load_main(main_ws) ELSE df_main
       /\ df_saving_goals' = IF f = 0 THEN load_saving_goals(goals_ws) ELSE in_memory
       /\ notice' = [op |-> "save_money_to_goal_section", result |-> IF f = 0 THEN "success" ELSE "error"]
       /\ UNCHANGED <<today, fixed_expenses_sheet, monthly_plans_sheet, df_fixed_expenses,
                      df_monthly_plans, selected_plan_month>>
       /\ Rerun
       /\ WithinBounds'

(***************************************************************************)
(* "Edit/Delete Goals": the data editor over the goals (CurrentSaved and   *)
(* SavingAmountPerFreq disabled) and "Save Goal Edits".                    *)
(***************************************************************************)
\* one edit in the "edit_goals_data_editor": a cell typed over, a target date cleared, a
\* row deleted
goals_editor(amounts, dates, frequencies) ==
    {[df_saving_goals EXCEPT ![i].GoalAmount = a] : i \in 1..Len(df_saving_goals), a \in amounts}
    \cup {[df_saving_goals EXCEPT ![i].TargetDate = d] : i \in 1..Len(df_saving_goals), d \in dates}
    \cup {[df_saving_goals EXCEPT ![i].SavingFrequency = x] :
              i \in 1..Len(df_saving_goals), x \in frequencies}
    \cup {Remove(df_saving_goals, i) : i \in 1..Len(df_saving_goals)}

\* the edited table replaces the session's at once; the cards of this run were rendered
\* from the table as it was, and no st.rerun() follows
edit_goals(edited_goals_df) ==
    /\ df_saving_goals # <<>>
    /\ edited_goals_df # df_saving_goals
    /\ df_saving_goals' = edited_goals_df
    /\ notice' = [op |-> "edit_goals_data_editor", result |-> ""]
    /\ UNCHANGED <<today, sheets, df_main, df_fixed_expenses, df_monthly_plans, selected_plan_month,
                   metrics, planned_expenses_view, other_session>>
    /\ goal_cards' = display_saving_goals(df_saving_goals, today)
    /\ WithinBounds'

\* a variant of the computation below that leaves out what is saved already
edited_saving_amount_ignoring_saved(row) ==
    LET edited_days_to_target ==
            timedelta_days(datetime(row.TargetDate.year, row.TargetDate.month, row.TargetDate.day),
                           datetime(today.year, today.month, today.day))
    IN IF edited_days_to_target > 0 /\ row.GoalAmount > 0
       THEN IF row.SavingFrequency = "Daily" THEN Quotient(row.GoalAmount, edited_days_to_target)
            ELSE IF row.SavingFrequency = "Weekly" THEN Quotient(7 * row.GoalAmount, edited_days_to_target)
            ELSE IF row.SavingFrequency = "Monthly"
            THEN Quotient(3044 * row.GoalAmount, 100 * edited_days_to_target)
            ELSE Quotient(0, 1)
       ELSE Quotient(0, 1)

\* the amount to save per period that "Save Goal Edits" computes for a row
edited_saving_amount_per_freq(row) ==
    LET edited_days_to_target ==
            timedelta_days(datetime(row.TargetDate.year, row.TargetDate.month, row.TargetDate.day),
                           datetime(today.year, today.month, today.day))
        edited_remaining_to_save == row.GoalAmount - row.CurrentSaved
    IN IF edited_days_to_target > 0 /\ row.GoalAmount > row.CurrentSaved
       THEN IF row.SavingFrequency = "Daily"
            THEN Quotient(edited_remaining_to_save, edited_days_to_target)
            ELSE IF row.SavingFrequency = "Weekly"
            THEN Quotient(7 * edited_remaining_to_save, edited_days_to_target)
            ELSE IF row.SavingFrequency = "Monthly"
            THEN Quotient(3044 * edited_remaining_to_save, 100 * edited_days_to_target)
            ELSE Quotient(0, 1)
       ELSE Quotient(0, 1)

edited_goal_row(row) ==
    [GoalName |-> row.GoalName, GoalAmount |-> row.GoalAmount, Emoji |-> row.Emoji,
     CurrentSaved |-> row.CurrentSaved, TargetDate |-> str_date(row.TargetDate),
     SavingFrequency |-> row.SavingFrequency,
     SavingAmountPerFreq |-> edited_saving_amount_per_freq(row)]

\* "Save Goal Edits": rows without a target date are left out
save_goal_edits(f) ==
    LET kept == SelectSeq(df_saving_goals, LAMBDA row : notna(row.TargetDate))
        rows == [i \in 1..Len(kept) |-> edited_goal_row(kept[i])]
        ws == clear_and_rewrite(goals_sheet, STANDARD_COLS_SAVING_GOALS, rows, f)
    IN /\ df_saving_goals # <<>>
       /\ f \in 0..(Len(rows) + 3)   \* clear, header, the rows, the reload
       /\ goals_sheet' = ws
       /\ df_saving_goals' = IF f = 0 THEN load_saving_goals(ws) ELSE df_saving_goals
       /\ notice' = [op |-> "save_goal_edits", result |-> IF f = 0 THEN "success" ELSE "error"]
       /\ UNCHANGED <<today, sheet, fixed_expenses_sheet, monthly_plans_sheet, df_main,
                      df_fixed_expenses, df_monthly_plans, selected_plan_month>>
       /\ Rerun
       /\ WithinBounds'

(***************************************************************************)
(* The environment: the clock, and the month selector of tab 4.            *)
(***************************************************************************)
Tick ==
    /\ today.day < LastDay
    /\ today' = [today EXCEPT !.day = today.day + 1]
    /\ notice' = [op |-> "", result |-> ""]
    /\ UNCHANGED <<sheets, session, selected_plan_month>>
    /\ Rerun
    /\ WithinBounds'

select_plan_month(m) ==
    /\ m \in all_plan_months_periods
    /\ m # selected_plan_month
    /\ selected_plan_month' = m
    /\ notice' = [op |-> "", result |-> ""]
    /\ UNCHANGED <<today, sheets, session>>
    /\ Rerun
    /\ WithinBounds'

\* the page is opened anew: st.session_state is empty, every table is loaded from its
\* worksheet (the cached loads have expired) and the widgets show their defaults
new_session ==
    /\ df_main' = load_main(sheet)
    /\ df_fixed_expenses' = load_fixed_expenses(fixed_expenses_sheet)
    /\ df_saving_goals' = load_saving_goals(goals_sheet)
    /\ df_monthly_plans' = load_monthly_plans(monthly_plans_sheet)
    /\ selected_plan_month' = next_month_date_obj
    /\ notice' = [op |-> "new_session", result |-> ""]
    /\ UNCHANGED <<today, sheets>>
    /\ Rerun
    /\ WithinBounds'

(***************************************************************************)
(* The specification.                                                      *)
(***************************************************************************)
Init ==
    /\ today = [year |-> ThisYear, month |-> ThisMonth, day |-> FirstDay, tod |-> 1]
    /\ sheet = <<STANDARD_COLS_MAIN>>
    /\ fixed_expenses_sheet = <<STANDARD_COLS_FIXED>>
    /\ goals_sheet = <<STANDARD_COLS_SAVING_GOALS>>
    /\ monthly_plans_sheet = <<STANDARD_COLS_MONTHLY_PLAN>>
    /\ df_main = <<>>
    /\ df_fixed_expenses = <<>>
    /\ df_saving_goals = <<>>
    /\ df_monthly_plans = <<>>
    /\ selected_plan_month = next_month_date_obj
    /\ metrics = calculate_dashboard_metrics(<<>>, <<>>, today)
    /\ goal_cards = <<>>
    /\ planned_expenses_view = render_planned_expenses
    /\ other_df_main = <<>>
    /\ other_notice = [op |-> "", result |-> ""]
    /\ notice = [op |-> "", result |-> ""]

\* the inputs of the whole program's specification
OneAmount == {1}
TargetDates == {datetime(ThisYear + 1, ThisMonth, 1)}

\* the program started on pay day
InitOnPayday ==
    /\ today = [year |-> ThisYear, month |-> ThisMonth, day |-> PAYDAY, tod |-> 1]
    /\ sheet = <<STANDARD_COLS_MAIN>>
    /\ fixed_expenses_sheet = <<STANDARD_COLS_FIXED>>
    /\ goals_sheet = <<STANDARD_COLS_SAVING_GOALS>>
    /\ monthly_plans_sheet = <<STANDARD_COLS_MONTHLY_PLAN>>
    /\ df_main = <<>>
    /\ df_fixed_expenses = <<>>
    /\ df_saving_goals = <<>>
    /\ df_monthly_plans = <<>>
    /\ selected_plan_month = next_month_date_obj
    /\ metrics = calculate_dashboard_metrics(<<>>, <<>>, today)
    /\ goal_cards = <<>>
    /\ planned_expenses_view = render_planned_expenses
    /\ other_df_main = <<>>
    /\ other_notice = [op |-> "", result |-> ""]
    /\ notice = [op |-> "", result |-> ""]

\* every operation that writes a table, within one day, with one amount to type and no
\* remote call raising
Next ==
    \/ \E m \in all_plan_months_periods : select_plan_month(m)
    \/ \E c \in editor_categories : entry_form(today, type_display("Expense"), c, 1, "", 0)
    \/ \E e \in main_entries_editor({2}) : save_main_entries(e, 0)
    \/ \E n \in GoalNames, d \in TargetDates : add_new_goal_form(n, 1, d, "Daily", 0)
    \/ \E k \in 1..Len(df_saving_goals) : save_money_to_goal_section(k, 1, 0)
    \/ \E n \in ItemNames : add_fixed_expense_form(n, 1, 0)
    \/ \E e \in fixed_expenses_editor({2}) : edit_fixed_expenses(e)
    \/ save_fixed_expenses(0)
    \/ save_planned_expenses(initial_planned_expenses_for_editor, 0)
    \/ \E c \in [1..Len(current_month_actionable_expenses) -> BOOLEAN] : update_payment_status(c, 0)

Spec == InitOnPayday /\ [][Next]_vars

\* the saving goals, where every remote call may raise
NextGoals ==
    \/ Tick
    \/ \E n \in GoalNames, a \in Amounts, d \in TargetDates, f \in 0..2 :
          add_new_goal_form(n, a, d, "Daily", f)
    \/ \E k \in 1..Len(df_saving_goals), a \in Amounts, f \in 0..(MaxGoals + 5) :
          save_money_to_goal_section(k, a, f)

SpecGoals == Init /\ [][NextGoals]_vars

\* the fixed expenses and their projection into the plan: the planned expenses are saved
\* as the editor shows them
NextProject ==
    \/ Tick
    \/ \E m \in all_plan_months_periods : select_plan_month(m)
    \/ \E n \in ItemNames \cup {""}, a \in EditorAmounts : add_fixed_expense_form(n, a, 0)
    \/ \E e \in fixed_expenses_editor(EditorAmounts) : edit_fixed_expenses(e)
    \/ save_fixed_expenses(0)
    \/ save_planned_expenses(initial_planned_expenses_for_editor, 0)
    \/ \E c \in [1..Len(current_month_actionable_expenses) -> BOOLEAN] : update_payment_status(c, 0)

SpecProject == Init /\ [][NextProject]_vars

\* the monthly plan on its own: no fixed expenses, no remote call raises
NextPlan ==
    \/ Tick
    \/ \E m \in all_plan_months_periods : select_plan_month(m)
    \/ \E a \in Amounts : plan_income_form(a, 0)
    \/ \E e \in planned_expenses_editor(ItemNames, Amounts) : save_planned_expenses(e, 0)
    \/ \E c \in [1..Len(current_month_actionable_expenses) -> BOOLEAN] : update_payment_status(c, 0)

SpecPlan == Init /\ [][NextPlan]_vars

\* the five submit forms with everything their widgets let through: an empty name, the
\* amount 0 (the number inputs have min_value 0.0); no remote call raises
NextForms ==
    \/ \E m \in all_plan_months_periods : select_plan_month(m)
    \/ \E c \in editor_categories, a \in EditorAmounts :
          entry_form(today, type_display("Expense"), c, a, "", 0)
    \/ \E n \in ItemNames \cup {""}, a \in EditorAmounts : add_fixed_expense_form(n, a, 0)
    \/ \E n \in GoalNames \cup {""}, a \in EditorAmounts, d \in TargetDates :
          add_new_goal_form(n, a, d, "Daily", 0)
    \/ \E k \in 1..Len(df_saving_goals), a \in EditorAmounts : save_money_to_goal_section(k, a, 0)
    \/ \E a \in EditorAmounts : plan_income_form(a, 0)

SpecForms == Init /\ [][NextForms]_vars

\* the goals from creation to edit, within one day: target dates before, on and after
\* that day, the three frequencies (chosen when the goal is added), a goal amount typed
\* over and a target date changed or cleared in the editor
GoalDates ==
    {datetime(ThisYear, ThisMonth, FirstDay - 1), datetime(ThisYear, ThisMonth, FirstDay),
     datetime(ThisYear, ThisMonth + 1, 2)}
Frequencies == {"Daily", "Weekly", "Monthly"}

NextGoalEdit ==
    \/ \E n \in GoalNames, d \in GoalDates, x \in Frequencies : add_new_goal_form(n, 2, d, x, 0)
    \/ \E k \in 1..Len(df_saving_goals) : save_money_to_goal_section(k, 1, 0)
    \/ \E e \in goals_editor(EditorAmounts, GoalDates \cup {NaT}, {}) : edit_goals(e)
    \/ save_goal_edits(0)

SpecGoalEdit == Init /\ [][NextGoalEdit]_vars

\* weekly goals due in less than a week, from creation to edit, within one day
ShortDates == {datetime(ThisYear, ThisMonth, FirstDay + 3)}

NextShortGoal ==
    \/ \E n \in GoalNames, a \in Amounts, d \in ShortDates : add_new_goal_form(n, a, d, "Weekly", 0)
    \/ \E k \in 1..Len(df_saving_goals) : save_money_to_goal_section(k, 1, 0)
    \/ \E e \in goals_editor(EditorAmounts, {}, {}) : edit_goals(e)
    \/ save_goal_edits(0)

SpecShortGoal == Init /\ [][NextShortGoal]_vars

\* the transactions: entries added, and "Save Main Entries" where every remote call of the
\* clear-and-rewrite may raise
NextRewrite ==
    \/ Tick
    \/ \E x \in {"Income", "Expense"}, c \in editor_categories, a \in Amounts :
          entry_form(today, type_display(x), c, a, "", 0)
    \/ \E e \in main_entries_editor(Amounts), f \in 0..(MaxTx + 3) : save_main_entries(e, f)

SpecRewrite == Init /\ [][NextRewrite]_vars

\* two browser sessions on one spreadsheet: both add entries, this one saves its table of
\* entries; no remote call raises
NextTwoSessions ==
    \/ Tick
    \/ \E c \in editor_categories : entry_form(today, type_display("Expense"), c, 1, "", 0)
    \/ \E c \in editor_categories : other_entry_form(today, type_display("Expense"), c, 2, "")
    \/ \E e \in main_entries_editor({}) : save_main_entries(e, 0)

SpecTwoSessions == Init /\ [][NextTwoSessions]_vars

\* payment on pay day with remote calls that may raise, and the page opened anew; the
\* bucket is planned before the first payment is recorded
NextPayRetry ==
    \/ \E m \in all_plan_months_periods : select_plan_month(m)
    \/ /\ Len(sheet) = 1
       /\ \E e \in planned_expenses_editor(ItemNames, Amounts) : save_planned_expenses(e, 0)
    \/ \E c \in [1..Len(current_month_actionable_expenses) -> BOOLEAN], f \in 0..(MaxPlan + 6) :
          update_payment_status(c, f)
    \/ new_session

SpecPayRetry == InitOnPayday /\ [][NextPayRetry]_vars

\* every handler that writes a worksheet, on pay day, each with one input; the goals
\* editor leaves the session ahead of the worksheet; no remote call raises
NextWrites ==
    \/ \E m \in all_plan_months_periods : select_plan_month(m)
    \/ \E c \in editor_categories : entry_form(today, type_display("Expense"), c, 1, "", 0)
    \/ \E e \in main_entries_editor({}) : save_main_entries(e, 0)
    \/ \E n \in GoalNames, d \in TargetDates : add_new_goal_form(n, 2, d, "Daily", 0)
    \/ \E k \in 1..Len(df_saving_goals) : save_money_to_goal_section(k, 1, 0)
    \/ \E e \in goals_editor({1}, {}, {}) : edit_goals(e)
    \/ save_goal_edits(0)
    \/ \E n \in ItemNames : add_fixed_expense_form(n, 1, 0)
    \/ save_fixed_expenses(0)
    \/ plan_income_form(1, 0)
    \/ save_planned_expenses(initial_planned_expenses_for_editor, 0)
    \/ \E c \in [1..Len(current_month_actionable_expenses) -> BOOLEAN] : update_payment_status(c, 0)

SpecWrites == InitOnPayday /\ [][NextWrites]_vars


(***************************************************************************)
(* calculate_dashboard_metrics on its own: the ledger and the fixed        *)
(* expenses it is given are drawn from bounded sets, whatever the program  *)
(* would have loaded.                                                      *)
(***************************************************************************)
MaxLedger == 2
LedgerAmounts == {0, 20000, 50000}
LedgerRows ==
    {[Date |-> datetime(ThisYear, ThisMonth, 1), Type |-> ty, Category |-> "Food", Amount |-> a,
      Note |-> ""] : ty \in {"Income", "Expense"}, a \in LedgerAmounts}
FixedRows == {[Name |-> "Rent", Amount |-> 8000], [Name |-> "Phone", Amount |-> 500]}

SeqsUpTo(S, n) == UNION {[1..k -> S] : k \in 0..n}

InitMetrics ==
    /\ today \in {[year |-> ThisYear, month |-> ThisMonth, day |-> d, tod |-> 1] :
                     d \in FirstDay..LastDay}
    /\ sheet = <<STANDARD_COLS_MAIN>>
    /\ fixed_expenses_sheet = <<STANDARD_COLS_FIXED>>
    /\ goals_sheet = <<STANDARD_COLS_SAVING_GOALS>>
    /\ monthly_plans_sheet = <<STANDARD_COLS_MONTHLY_PLAN>>
    /\ df_main \in SeqsUpTo(LedgerRows, MaxLedger)
    /\ df_fixed_expenses \in SeqsUpTo(FixedRows, MaxFixed)
    /\ df_saving_goals = <<>>
    /\ df_monthly_plans = <<>>
    /\ selected_plan_month = next_month_date_obj
    /\ metrics = calculate_dashboard_metrics(<<>>, <<>>, today)
    /\ goal_cards = <<>>
    /\ planned_expenses_view = render_planned_expenses
    /\ other_df_main = <<>>
    /\ other_notice = [op |-> "", result |-> ""]
    /\ notice = [op |-> "", result |-> ""]

\* the function applied to the ledger as given
dashboard_metrics ==
    /\ notice.op = ""
    /\ metrics' = calculate_dashboard_metrics(df_main, df_fixed_expenses, today)
    /\ notice' = [op |-> "calculate_dashboard_metrics", result |-> ""]
    /\ UNCHANGED <<today, sheets, session, selected_plan_month, goal_cards, planned_expenses_view,
                   other_session>>

NextMetrics == dashboard_metrics

SpecMetrics == InitMetrics /\ [][NextMetrics]_vars

\* calculate_dashboard_metrics over the calendar: mid-month and around pay day, a month
\* that ends the year, at midnight and later in the day
PaydayDays == {10} \cup (FirstDay..LastDay)
PaydayMonths == {ThisMonth, 12}

InitPayday ==
    /\ today \in {[year |-> ThisYear, month |-> m, day |-> d, tod |-> h] :
                     m \in PaydayMonths, d \in PaydayDays, h \in {0, 1}}
    /\ sheet = <<STANDARD_COLS_MAIN>>
    /\ fixed_expenses_sheet = <<STANDARD_COLS_FIXED>>
    /\ goals_sheet = <<STANDARD_COLS_SAVING_GOALS>>
    /\ monthly_plans_sheet = <<STANDARD_COLS_MONTHLY_PLAN>>
    /\ df_main \in SeqsUpTo(LedgerRows, MaxLedger)
    /\ df_fixed_expenses = <<>>
    /\ df_saving_goals = <<>>
    /\ df_monthly_plans = <<>>
    /\ selected_plan_month = next_month_date_obj
    /\ metrics = calculate_dashboard_metrics(<<>>, <<>>, today)
    /\ goal_cards = <<>>
    /\ planned_expenses_view = render_planned_expenses
    /\ other_df_main = <<>>
    /\ other_notice = [op |-> "", result |-> ""]
    /\ notice = [op |-> "", result |-> ""]

SpecPayday == InitPayday /\ [][NextMetrics]_vars

(***************************************************************************)
(* The claims.                                                             *)
(***************************************************************************)
RECURSIVE TotalOf(_, _)
TotalOf(ledger, type) ==
    IF ledger = <<>> THEN 0
    ELSE (IF Head(ledger).Type = type THEN Head(ledger).Amount ELSE 0) + TotalOf(Tail(ledger), type)

RECURSIVE FixedTotal(_)
FixedTotal(fixed) == IF fixed = <<>> THEN 0 ELSE Head(fixed).Amount + FixedTotal(Tail(fixed))

\* C1: for every ledger of Income/Expense rows with non-negative amounts and every
\* fixed-expense table, calculate_dashboard_metrics returns income = the sum of the
\* Income amounts, expense = the sum of the Expense amounts, balance = income - expense
\* and remaining_after_fixed = balance - the sum of the fixed-expense amounts.
C1_Metrics ==
    notice.op = "calculate_dashboard_metrics" =>
        /\ metrics.income = TotalOf(df_main, "Income")
        /\ metrics.expense = TotalOf(df_main, "Expense")
        /\ metrics.balance = TotalOf(df_main, "Income") - TotalOf(df_main, "Expense")
        /\ metrics.remaining_after_fixed =
              TotalOf(df_main, "Income") - TotalOf(df_main, "Expense") - FixedTotal(df_fixed_expenses)

\* the scenario of the claim: ledger {Income 50000, Expense 20000}, fixed {8000, 500}
C1_Witness ==
    /\ notice.op = "calculate_dashboard_metrics"
    /\ Len(df_main) = 2
    /\ df_main[1].Type = "Income" /\ df_main[1].Amount = 50000
    /\ df_main[2].Type = "Expense" /\ df_main[2].Amount = 20000
    /\ Len(df_fixed_expenses) = 2
    /\ df_fixed_expenses[1].Amount = 8000 /\ df_fixed_expenses[2].Amount = 500
    /\ metrics.balance = 30000
    /\ metrics.remaining_after_fixed = 21500

FixedNotes == {"Fixed Monthly Expense: " \o n : n \in ItemNames \cup {""}}

\* a transaction row that was made from a fixed expense for the calculation
Materialized(r) == "Note" \in DOMAIN r /\ r.Category = "Fixed Expense" /\ r.Note \in FixedNotes

\* C2: whatever operations ran (add entry, edit and save of the entries, save money,
\* payment activation, fixed-expense edits), no row of the transactions worksheet is a
\* row made from the fixed-expense list; such rows are in the combined ledger only.
C2_NoMaterializedRowPersisted ==
    \A i \in 1..Len(sheet) : ~Materialized(sheet[i])

\* the entries were saved while the combined ledger held a row made from a fixed expense
C2_Witness ==
    /\ notice = [op |-> "save_main_entries", result |-> "success"]
    /\ Len(sheet) >= 2
    /\ \E i \in 1..Len(df_combined(df_main, df_fixed_expenses, today)) :
          Materialized(df_combined(df_main, df_fixed_expenses, today)[i])

\* a step that adds a to the money saved for one goal and changes no other goal
goal_credited(a) ==
    \E k \in 1..Len(df_saving_goals) :
        df_saving_goals' = [df_saving_goals EXCEPT ![k].CurrentSaved = @ + a]

\* a step that appends to the transactions one Expense of amount a tagged with a goal
saving_recorded(a) ==
    /\ Len(df_main') = Len(df_main) + 1
    /\ SubSeq(df_main', 1, Len(df_main)) = df_main
    /\ df_main'[Len(df_main')].Type = "Expense"
    /\ df_main'[Len(df_main')].Amount = a
    /\ \E k \in 1..Len(df_saving_goals) :
          df_main'[Len(df_main')].Category = "Saving Goal: " \o df_saving_goals[k].GoalName

\* C3: a save-money action with contribution a > 0 adds a to the goal's currentSaved
\* and appends one Expense transaction of amount a tagged with the goal's name, and
\* after the action, a failed remote call included, both effects are there or neither.
C3_SaveMoneyAtomic ==
    [][notice'.op = "save_money_to_goal_section" =>
         /\ notice'.result = "success" =>
               \E a \in Amounts : goal_credited(a) /\ saving_recorded(a)
         /\ \/ df_saving_goals' = df_saving_goals /\ df_main' = df_main
            \/ \E a \in Amounts : goal_credited(a) /\ saving_recorded(a)]_vars

\* C10: when a remote call fails during a write action, the session tables are as they
\* were before the action.
C10_FailureKeepsSession ==
    [][notice'.result = "error" => session' = session]_vars

SameDay(a, b) == a.year = b.year /\ a.month = b.month /\ a.day = b.day
SameKey(p, q) == p.ItemName = q.ItemName /\ p.Category = q.Category /\ p.Amount = q.Amount

\* C4: once an Expense item of a bucket is paid with a datePaid, a save of the bucket's
\* planned expenses that leaves the item's own row (itemName, category, amount) unedited
\* leaves the item paid, with the same datePaid.  The row is still there after the save,
\* and datePaid is compared by calendar day, the reading most favourable to the code.
C4_PaidMonotonic ==
    [][(notice'.op = "save_planned_expenses" /\ notice'.result = "success") =>
         \A i \in 1..Len(existing_planned_expenses) :
            LET p == existing_planned_expenses[i]
                kept == {j \in 1..Len(existing_planned_expenses') :
                            SameKey(existing_planned_expenses'[j], p)}
            IN (p.IsPaid /\ notna(p.DatePaid) /\ kept # {}) =>
                  \E j \in kept : /\ existing_planned_expenses'[j].IsPaid
                                  /\ SameDay(existing_planned_expenses'[j].DatePaid, p.DatePaid)]_vars

\* the plan items an activation changed from unpaid to paid
became_paid ==
    {i \in 1..Len(df_monthly_plans) :
        /\ ~df_monthly_plans[i].IsPaid
        /\ i <= Len(df_monthly_plans') /\ df_monthly_plans'[i].IsPaid}

\* the transactions an action appended to the worksheet
emitted == {i \in (Len(sheet) + 1)..Len(sheet') : TRUE}

\* C5: a payment activation sets every unpaid item of the current month that is flagged
\* in the editor to paid with datePaid = now and emits one Expense transaction with the
\* item's category and amount; the transactions emitted are as many as the items that
\* changed from unpaid to paid.
C5_Activation ==
    [][(notice'.op = "update_payment_status" /\ notice'.result = "success") =>
         /\ \A i \in became_paid :
               /\ SameDay(df_monthly_plans'[i].DatePaid, today)
               /\ \E k \in emitted : /\ sheet'[k].Type = "Expense"
                                      /\ sheet'[k].Category = df_monthly_plans[i].Category
                                      /\ sheet'[k].Amount = df_monthly_plans[i].Amount
         /\ Cardinality(emitted) = Cardinality(became_paid)]_vars

\* C9: every paid plan item has a datePaid, and saving the expected income of a bucket
\* leaves isPaid and datePaid of every Expense item of the bucket unchanged.
C9_IncomeSaveKeepsPayments ==
    /\ [](\A i \in 1..Len(df_monthly_plans) :
             df_monthly_plans[i].IsPaid => notna(df_monthly_plans[i].DatePaid))
    /\ [][(notice'.op = "plan_income_form" /\ notice'.result = "success") =>
            /\ Len(existing_planned_expenses') = Len(existing_planned_expenses)
            /\ \A i \in 1..Len(existing_planned_expenses) :
                  /\ existing_planned_expenses'[i].IsPaid = existing_planned_expenses[i].IsPaid
                  /\ existing_planned_expenses'[i].DatePaid = existing_planned_expenses[i].DatePaid]_vars

PaymentNotes == {"Paid planned expense: " \o n : n \in ItemNames}

\* C7: a payment activation changes state only when today's day of the month is >= 25
\* and the viewed bucket is the current (year, month): in every other situation no step
\* is an activation, none turns an unpaid item paid with today as its datePaid, and none
\* appends a payment transaction.
C7_ActivationGuard ==
    [][~(/\ today.day >= 25
         /\ selected_plan_month.year = today.year
         /\ selected_plan_month.month = today.month) =>
          /\ notice'.op # "update_payment_status"
          /\ \A i \in became_paid : df_monthly_plans'[i].DatePaid # today
          /\ \A k \in emitted : sheet'[k].Note \notin PaymentNotes]_vars

\* an activation has run, on the 25th and on the current month's bucket, and paid an item
C7_Witness ==
    /\ notice = [op |-> "update_payment_status", result |-> "success"]
    /\ today.day = 25
    /\ SameMonth(selected_plan_month, today)
    /\ \E i \in 1..Len(df_monthly_plans) : df_monthly_plans[i].IsPaid
    /\ \E k \in 2..Len(sheet) : sheet[k].Note \in PaymentNotes

\* the Expense items of a month's bucket that carry a fixed expense
fixed_items(month) ==
    SelectSeq(df_monthly_plans, LAMBDA r : /\ InBucket(r, month) /\ r.ItemType = "Expense"
                                          /\ r.Category = "Fixed Expense")

\* C8: the merge of the fixed expenses into a bucket is idempotent (a save of the
\* projected bucket that follows a save of the projected bucket leaves the same items)
\* and no bucket ever holds two Expense items of the same itemName and of category
\* "Fixed Expense".
C8_MergeIdempotentNoDuplicate ==
    /\ [](\A m \in all_plan_months_periods :
             \A i, j \in 1..Len(fixed_items(m)) :
                fixed_items(m)[i].ItemName = fixed_items(m)[j].ItemName => i = j)
    /\ [][(/\ notice = [op |-> "save_planned_expenses", result |-> "success"]
            /\ notice' = [op |-> "save_planned_expenses", result |-> "success"]) =>
              existing_planned_expenses' = existing_planned_expenses]_vars

\* C11: no submit form (add entry, add fixed expense, add goal, save money, plan income)
\* ever writes a record with an empty name or a non-positive amount: every row of the
\* four worksheets has an amount above 0, and every fixed expense and goal a name.
data_rows(ws) == {ws[i] : i \in 2..Len(ws)}

C11_NoInvalidRecordWritten ==
    /\ \A r \in data_rows(sheet) : r.Amount > 0
    /\ \A r \in data_rows(fixed_expenses_sheet) : r.Name # "" /\ r.Amount > 0
    /\ \A r \in data_rows(goals_sheet) : r.GoalName # "" /\ r.GoalAmount > 0
    /\ \A r \in data_rows(monthly_plans_sheet) : r.ItemName # "" /\ r.Amount > 0

\* C12: after every successful write action, each table the action wrote is reloaded: the
\* session copy of a written table has the rows of its worksheet, in order, cell by cell
\* (a date cell by the moment it denotes).
SameMoment(d, cell) ==
    d.year = cell.year /\ d.month = cell.month /\ d.day = cell.day /\ d.tod = cell.tod

main_mirrors_sheet ==
    /\ Len(df_main) = Len(sheet) - 1
    /\ \A i \in 1..Len(df_main) :
          /\ SameMoment(df_main[i].Date, sheet[i + 1].Date)
          /\ df_main[i].Type = sheet[i + 1].Type
          /\ df_main[i].Category = sheet[i + 1].Category
          /\ df_main[i].Amount = sheet[i + 1].Amount
          /\ df_main[i].Note = sheet[i + 1].Note

fixed_mirrors_sheet ==
    /\ Len(df_fixed_expenses) = Len(fixed_expenses_sheet) - 1
    /\ \A i \in 1..Len(df_fixed_expenses) : df_fixed_expenses[i] = fixed_expenses_sheet[i + 1]

goals_mirror_sheet ==
    /\ Len(df_saving_goals) = Len(goals_sheet) - 1
    /\ \A i \in 1..Len(df_saving_goals) :
          /\ SameMoment(df_saving_goals[i].TargetDate, goals_sheet[i + 1].TargetDate)
          /\ [df_saving_goals[i] EXCEPT !.TargetDate = NaT]
               = [goals_sheet[i + 1] EXCEPT !.TargetDate = NaT]

plans_mirror_sheet ==
    /\ Len(df_monthly_plans) = Len(monthly_plans_sheet) - 1
    /\ \A i \in 1..Len(df_monthly_plans) :
          /\ SameMoment(df_monthly_plans[i].MonthYear, monthly_plans_sheet[i + 1].MonthYear)
          /\ SameMoment(df_monthly_plans[i].DatePaid, monthly_plans_sheet[i + 1].DatePaid)
          /\ df_monthly_plans[i].IsPaid = (monthly_plans_sheet[i + 1].IsPaid = "TRUE")
          /\ df_monthly_plans[i].ItemType = monthly_plans_sheet[i + 1].ItemType
          /\ df_monthly_plans[i].ItemName = monthly_plans_sheet[i + 1].ItemName
          /\ df_monthly_plans[i].Amount = monthly_plans_sheet[i + 1].Amount
          /\ df_monthly_plans[i].Category = monthly_plans_sheet[i + 1].Category

C12_WrittenTablesReloaded ==
    [][notice'.result = "success" =>
          /\ notice'.op \in {"entry_form", "save_main_entries", "save_money_to_goal_section",
                              "update_payment_status"} => main_mirrors_sheet'
          /\ notice'.op \in {"add_fixed_expense_form", "save_fixed_expenses"} => fixed_mirrors_sheet'
          /\ notice'.op \in {"add_new_goal_form", "save_goal_edits", "save_money_to_goal_section"}
                => goals_mirror_sheet'
          /\ notice'.op \in {"plan_income_form", "save_planned_expenses", "update_payment_status"}
                => plans_mirror_sheet']_vars

\* a payment activation has appended a transaction and both tables it wrote are in step
C12_Witness ==
    /\ notice = [op |-> "update_payment_status", result |-> "success"]
    /\ Len(sheet) > 1
    /\ \E i \in 1..Len(df_monthly_plans) : df_monthly_plans[i].IsPaid
    /\ main_mirrors_sheet
    /\ plans_mirror_sheet

\* C13: the pay-day anchor of the suggested daily spend is day 25 of the next month when
\* today's day is above 25 (December rolls over to January of the next year) and day 25 of
\* the current month otherwise, the 25th itself included; the divisor of a positive
\* balance is the day count to that anchor.
PaydayAnchor(now) ==
    CASE now.day <= 25 -> [year |-> now.year, month |-> now.month, day |-> 25, tod |-> 0]
      [] now.day > 25 /\ now.month = 12 -> [year |-> now.year + 1, month |-> 1, day |-> 25, tod |-> 0]
      [] OTHER -> [year |-> now.year, month |-> now.month + 1, day |-> 25, tod |-> 0]

C13_PaydayAnchor ==
    notice.op = "calculate_dashboard_metrics" =>
        /\ target_date_for_daily_spend(today) = PaydayAnchor(today)
        /\ metrics.balance > 0 =>
              LET days == timedelta_days(PaydayAnchor(today), today)
              IN metrics.suggested_daily = Quotient(metrics.balance, IF days <= 0 THEN 1 ELSE days)

\* on the 26th of December, later than midnight, a positive balance is spread over the 29
\* full days to the 25th of January
C13_Witness ==
    /\ notice.op = "calculate_dashboard_metrics"
    /\ today = [year |-> ThisYear, month |-> 12, day |-> 26, tod |-> 1]
    /\ metrics.balance > 0
    /\ metrics.suggested_daily.den = 29

\* C14: the suggested daily spend is the balance divided by the number of whole calendar
\* days from today's date to the anchor date, that number replaced by 1 only when it is
\* 0 or less, whatever the time of day.
calendar_days_to_anchor == toordinal(PaydayAnchor(today)) - toordinal(today)

C14_WholeCalendarDays ==
    (notice.op = "calculate_dashboard_metrics" /\ metrics.balance >= 0) =>
        LET n == IF calendar_days_to_anchor <= 0 THEN 1 ELSE calendar_days_to_anchor
        IN metrics.suggested_daily.num * n = metrics.balance * metrics.suggested_daily.den

\* C15: the suggested daily spend is never negative, and it is 0 whenever the balance is
\* negative.
C15_NeverNegative ==
    notice.op = "calculate_dashboard_metrics" =>
        /\ metrics.suggested_daily.den > 0
        /\ metrics.suggested_daily.num >= 0
        /\ metrics.balance < 0 => metrics.suggested_daily.num = 0

\* an expense with no income: the balance is negative, nothing is suggested
C15_Witness ==
    /\ notice.op = "calculate_dashboard_metrics"
    /\ metrics.balance < 0
    /\ metrics.suggested_daily.num = 0

\* C16: the required contribution per period computed when a goal is created or edited
\* is never negative, and is 0 whenever the goal's saved amount has reached its target
\* amount or its target date is today or earlier.
\* the rows of the goals worksheet whose required contribution the step computed
computed_goal_rows ==
    IF notice.result # "success" THEN {}
    ELSE IF notice.op = "add_new_goal_form" THEN {goals_sheet[Len(goals_sheet)]}
    ELSE IF notice.op = "save_goal_edits" THEN data_rows(goals_sheet)
    ELSE {}

days_remaining(row) == toordinal(row.TargetDate) - toordinal(today)

C16_RequiredZeroWhenDone ==
    [][\A row \in computed_goal_rows' :
          /\ row.SavingAmountPerFreq.den > 0
          /\ row.SavingAmountPerFreq.num >= 0
          /\ (row.CurrentSaved >= row.GoalAmount \/ days_remaining(row)' <= 0)
                => row.SavingAmountPerFreq.num = 0]_vars

\* "Save Goal Edits" on a goal whose saved amount has reached the target while the target
\* date is still ahead: nothing more is required
C16_Witness ==
    /\ notice = [op |-> "save_goal_edits", result |-> "success"]
    /\ \E row \in data_rows(goals_sheet) :
          /\ row.GoalAmount > 0
          /\ row.CurrentSaved >= row.GoalAmount
          /\ days_remaining(row) > 0
          /\ row.SavingAmountPerFreq.num = 0

\* C17: for a goal with remaining = target amount - saved > 0 and days remaining > 0, the
\* required contribution is remaining / days for Daily, remaining / (days / 7) for Weekly
\* and remaining / (days / 30.44) for Monthly; a goal of 10000 with 2500 saved, due in
\* 100 days and saved for weekly, requires 525.
required_is(row, num, den) == row.SavingAmountPerFreq.num * den = num * row.SavingAmountPerFreq.den

in_100_days ==
    CHOOSE d \in {datetime(ThisYear + 1, m, k) : m \in 1..12, k \in 1..28} :
        toordinal(d) - toordinal(today) = 100

C17_Example ==
    LET required == edited_saving_amount_per_freq(
            [GoalName |-> "Trip", GoalAmount |-> 10000, Emoji |-> EMOJI_DEFAULT,
             CurrentSaved |-> 2500, TargetDate |-> in_100_days, SavingFrequency |-> "Weekly",
             SavingAmountPerFreq |-> Quotient(0, 1)])
    IN required.den > 0 /\ required.num = 525 * required.den

C17_RequiredPerFrequency ==
    /\ []C17_Example
    /\ [][\A row \in computed_goal_rows' :
            LET remaining == row.GoalAmount - row.CurrentSaved
                days == days_remaining(row)'
            IN (remaining > 0 /\ days > 0) =>
                  /\ row.SavingFrequency = "Daily" => required_is(row, remaining, days)
                  /\ row.SavingFrequency = "Weekly" => required_is(row, 7 * remaining, days)
                  /\ row.SavingFrequency = "Monthly" => required_is(row, 3044 * remaining, 100 * days)]_vars

\* "Save Goal Edits" on a weekly goal of 2 with 1 saved and 8 days to go: 7/8 a week
C17_Witness ==
    /\ notice = [op |-> "save_goal_edits", result |-> "success"]
    /\ \E row \in data_rows(goals_sheet) :
          /\ row.GoalAmount = 2
          /\ row.CurrentSaved = 1
          /\ row.SavingFrequency = "Weekly"
          /\ days_remaining(row) = 8
          /\ required_is(row, 7, 8)

\* C18: a month bucket holds at most one Income item: a save of the expected income for a
\* bucket that held at most one leaves it with exactly one Income item, whose amount is
\* the value saved, and leaves the Income items of the other buckets as they were.
income_items(plans, month) ==
    SelectSeq(plans, LAMBDA r : r.ItemType = "Income" /\ SameMonth(r.MonthYear, month))

other_income_items(plans, month) ==
    SelectSeq(plans, LAMBDA r : r.ItemType = "Income" /\ ~SameMonth(r.MonthYear, month))

C18_AtMostOneIncome ==
    \A m \in all_plan_months_periods :
        /\ Len(income_items(df_monthly_plans, m)) <= 1
        /\ Len(income_items(load_monthly_plans(monthly_plans_sheet), m)) <= 1

C18_OneIncomePerBucket ==
    /\ []C18_AtMostOneIncome
    /\ [][\A a \in Amounts :
            (plan_income_form(a, 0) /\ Len(income_items(df_monthly_plans, selected_plan_month)) <= 1) =>
                /\ Len(income_items(df_monthly_plans', selected_plan_month)) = 1
                /\ income_items(df_monthly_plans', selected_plan_month)[1].Amount = a
                /\ other_income_items(df_monthly_plans', selected_plan_month)
                     = other_income_items(df_monthly_plans, selected_plan_month)]_vars

\* the expected income of the selected bucket is 2 after a save, and the other bucket
\* keeps its expected income of 1
C18_Witness ==
    /\ notice = [op |-> "plan_income_form", result |-> "success"]
    /\ Len(income_items(df_monthly_plans, selected_plan_month)) = 1
    /\ income_items(df_monthly_plans, selected_plan_month)[1].Amount = 2
    /\ Len(other_income_items(df_monthly_plans, selected_plan_month)) = 1
    /\ other_income_items(df_monthly_plans, selected_plan_month)[1].Amount = 1

\* C19: the status of a goal card follows a strict priority: saved >= target amount gives
\* "Goal Reached!" even when the target date is missing or past; otherwise a missing
\* target date gives "Invalid Target Date"; otherwise a negative number of days remaining
\* gives "Overdue"; otherwise the card reads "Remaining N days" with N the days remaining,
\* N >= 0.
card_days_remaining(card) == toordinal(card.target_date_display) - toordinal(today)

C19_StatusPriority ==
    \A i \in 1..Len(goal_cards) :
        LET card == goal_cards[i]
        IN IF card.current_saved >= card.goal_amount THEN card.status_text = "Thueng pao laeo!"
           ELSE IF card.target_date_display = EmptyCell
                THEN card.status_text = "Wanthi paomai mai thuktong"
           ELSE IF card_days_remaining(card) < 0 THEN card.status_text = "Koen kamnot"
           ELSE card.status_text = "Luea " \o ToString(card_days_remaining(card)) \o " wan"

\* a goal that has reached its amount and has lost its target date reads as reached
C19_Witness ==
    \E i \in 1..Len(goal_cards) :
        /\ goal_cards[i].goal_amount > 0
        /\ goal_cards[i].current_saved >= goal_cards[i].goal_amount
        /\ goal_cards[i].target_date_display = EmptyCell
        /\ goal_cards[i].status_text = "Thueng pao laeo!"

\* C20: the progress percent of a goal card is within 0..100 for every saved and target
\* amount, saved above target included, and a target amount of 0 gives progress 0 (no
\* division by zero).
C20_ProgressWithinRange ==
    \A i \in 1..Len(goal_cards) :
        LET p == goal_cards[i].progress_percent
        IN /\ p.den > 0
           /\ 0 <= p.num
           /\ p.num <= 100 * p.den
           /\ goal_cards[i].goal_amount = 0 => p.num = 0

\* more saved than the target amount: the bar is full
C20_Witness ==
    \E i \in 1..Len(goal_cards) :
        /\ goal_cards[i].goal_amount > 0
        /\ goal_cards[i].current_saved > goal_cards[i].goal_amount
        /\ goal_cards[i].progress_percent.num = 100 * goal_cards[i].progress_percent.den

\* C21: after every operation that writes the goals table (add goal, save goal edits,
\* save money), each stored goal's required amount per period equals the value recomputed
\* from its stored target amount, saved amount, target date and frequency at the time of
\* the write; it is 0 once the saved amount has reached the target amount.
goals_written ==
    notice.result = "success"
    /\ notice.op \in {"add_new_goal_form", "save_goal_edits", "save_money_to_goal_section"}

required_is_current(row) ==
    LET remaining == row.GoalAmount - row.CurrentSaved
        days == IF row.TargetDate = EmptyCell THEN 0 ELSE days_remaining(row)
    IN IF remaining <= 0 \/ days <= 0 THEN row.SavingAmountPerFreq.num = 0
       ELSE /\ row.SavingFrequency = "Daily" => required_is(row, remaining, days)
            /\ row.SavingFrequency = "Weekly" => required_is(row, 7 * remaining, days)
            /\ row.SavingFrequency = "Monthly" => required_is(row, 3044 * remaining, 100 * days)

C21_StoredRequiredIsCurrent ==
    [][goals_written' => \A row \in data_rows(goals_sheet)' : required_is_current(row)']_vars

\* C22: on a save of the planned expenses, each saved row takes isPaid and datePaid from a
\* prior item of the bucket exactly when that item matches the row on (itemName,
\* category, amount); a row whose amount differs from every prior item of its name and
\* category is saved unpaid, without a datePaid.  datePaid is compared by calendar day.
C22_StatusCarriedOnTriple ==
    [][(notice'.op = "save_planned_expenses" /\ notice'.result = "success") =>
         \A j \in 1..Len(existing_planned_expenses') :
            LET row == existing_planned_expenses'[j]
                prior == {i \in 1..Len(current_month_plan_df) :
                             SameKey(current_month_plan_df[i], row)}
            IN IF prior = {} THEN ~row.IsPaid /\ row.DatePaid = NaT
               ELSE \E i \in prior : /\ row.IsPaid = current_month_plan_df[i].IsPaid
                                     /\ SameDay(row.DatePaid, current_month_plan_df[i].DatePaid)]_vars

\* C23: for a Weekly goal with 0 < days remaining < 7 the required contribution computed
\* on creation or edit is the remaining amount itself, so it never exceeds the remaining
\* amount.
C23_WeeklyFallsBackToRemaining ==
    [][\A row \in computed_goal_rows' :
          LET remaining == row.GoalAmount - row.CurrentSaved
              days == days_remaining(row)'
          IN (row.SavingFrequency = "Weekly" /\ remaining > 0 /\ days > 0 /\ days < 7) =>
                required_is(row, remaining, 1)]_vars

\* C24: when the plan of a bucket is viewed, a fixed expense is projected into the
\* bucket's Expense items as a new item (unpaid, no datePaid, category "Fixed Expense",
\* the fixed expense's amount) if and only if the bucket has no Expense item of its name
\* and of category "Fixed Expense"; the items the bucket has are shown as they are.
bucket_expenses ==
    SelectSeq(df_monthly_plans,
              LAMBDA r : r.ItemType = "Expense" /\ SameMonth(r.MonthYear, selected_plan_month))

has_fixed_item(name) ==
    \E i \in 1..Len(bucket_expenses) :
        bucket_expenses[i].ItemName = name /\ bucket_expenses[i].Category = "Fixed Expense"

unmatched_fixed_expenses == SelectSeq(df_fixed_expenses, LAMBDA fx : ~has_fixed_item(fx.Name))

C24_ProjectionOfFixedExpenses ==
    LET view == planned_expenses_view
        n == Len(bucket_expenses)
    IN /\ view.existing = bucket_expenses
       /\ Len(view.to_add) = Len(unmatched_fixed_expenses)
       /\ \A k \in 1..Len(view.to_add) :
             view.to_add[k] = [MonthYear |-> selected_plan_month, ItemType |-> "Expense",
                               ItemName |-> unmatched_fixed_expenses[k].Name,
                               Amount |-> unmatched_fixed_expenses[k].Amount,
                               Category |-> "Fixed Expense", IsPaid |-> FALSE, DatePaid |-> NaT]
       /\ Len(view.editor) = n + Len(view.to_add)
       /\ \A i \in 1..n :
             /\ view.editor[i].ItemName = bucket_expenses[i].ItemName
             /\ view.editor[i].Amount = bucket_expenses[i].Amount
             /\ view.editor[i].IsPaid = bucket_expenses[i].IsPaid
             /\ REVERSE_CATEGORY_MAP(view.editor[i].Category) = bucket_expenses[i].Category
       /\ \A k \in 1..Len(view.to_add) :
             /\ view.editor[n + k].ItemName = view.to_add[k].ItemName
             /\ view.editor[n + k].Amount = view.to_add[k].Amount
             /\ view.editor[n + k].IsPaid = FALSE
             /\ REVERSE_CATEGORY_MAP(view.editor[n + k].Category) = "Fixed Expense"

\* a bucket that holds, paid, the item of a fixed expense still in the list: the item is
\* shown as it is and nothing is projected
C24_Witness ==
    /\ \E k \in 1..Len(df_fixed_expenses) : has_fixed_item(df_fixed_expenses[k].Name)
    /\ Len(planned_expenses_view.existing) > 0
    /\ \E i \in 1..Len(planned_expenses_view.existing) : planned_expenses_view.existing[i].IsPaid
    /\ planned_expenses_view.to_add = <<>>

\* C25: when a remote call fails in the middle of a clear-and-rewrite of a table, the
\* worksheet holds the content of the last successful rewrite: it is as it was before the
\* failed rewrite (or, when only the reload after the rewrite failed, it holds the new
\* content in full), never emptied and never written in part.
C25_FailedRewriteLeavesTable ==
    [][\A e \in main_entries_editor(Amounts), f \in 1..(MaxTx + 3) :
          save_main_entries(e, f) =>
              \/ sheet' = sheet
              \/ sheet' = <<STANDARD_COLS_MAIN>> \o main_rows_to_save(e)]_vars

\* C26: with two sessions on one spreadsheet a lost update is reachable: when this session
\* saves its table of entries, the worksheet is cleared and rewritten from this session's
\* copy alone, so a row the other session appended since this session loaded is gone from
\* the worksheet, and neither session is shown an error.
C26_LostUpdate ==
    [][\A e \in main_entries_editor({}) :
          save_main_entries(e, 0) =>
              /\ sheet' = <<STANDARD_COLS_MAIN>> \o main_rows_to_save(e)
              /\ notice'.result = "success"
              /\ other_notice' = other_notice]_vars

\* the other session appended a row with success, this session then saved with success,
\* and the row of the other session is in neither the worksheet nor this session's table
C26_Witness ==
    /\ notice = [op |-> "save_main_entries", result |-> "success"]
    /\ other_notice = [op |-> "entry_form", result |-> "success"]
    /\ \E i \in 1..Len(other_df_main) :
          /\ \A j \in 1..Len(df_main) : df_main[j] # other_df_main[i]
          /\ \A j \in 1..Len(load_main(sheet)) : load_main(sheet)[j] # other_df_main[i]

\* C27: on the dashboard, where the ledger given to the aggregation already holds the rows
\* made from the fixed expenses, each fixed expense lowers remaining_after_fixed by its
\* amount once: remaining_after_fixed = the Income of the entries - the Expense of the
\* entries - the sum of the fixed-expense amounts.
C27_FixedCountedOnce ==
    metrics.remaining_after_fixed =
        TotalOf(df_main, "Income") - TotalOf(df_main, "Expense") - FixedTotal(df_fixed_expenses)

\* C28: "Save Money Now" changes, in the goals worksheet, only CurrentSaved of the selected
\* goal: no goal row is added or removed and every other field of every goal is written
\* back as the worksheet held it before, also when the goals editor holds edits or
\* deletions that were not saved.
C28_SaveMoneyOnlyCredits ==
    [][\A k \in 1..Len(df_saving_goals) :
          save_money_to_goal_section(k, 1, 0) =>
              /\ Len(goals_sheet') = Len(goals_sheet)
              /\ \A i \in 2..Len(goals_sheet) :
                    /\ goals_sheet'[i] =
                          [goals_sheet[i] EXCEPT !.CurrentSaved = goals_sheet'[i].CurrentSaved]
                    /\ goals_sheet[i].GoalName # df_saving_goals[k].GoalName =>
                          goals_sheet'[i].CurrentSaved = goals_sheet[i].CurrentSaved]_vars

\* the payment transactions in the worksheet for the plan item (name, category, amount)
payments_of(name, category, amount) ==
    {i \in 2..Len(sheet) :
        /\ sheet[i].Note = "Paid planned expense: " \o name
        /\ sheet[i].Category = category
        /\ sheet[i].Amount = amount}

\* C29: for a plan item that is not created again by a later save of the plan, at most one
\* payment transaction is ever appended to the transactions worksheet, whatever payment
\* activations follow, also when the rewrite of the plan worksheet raised after the
\* transaction was appended and the page is then opened anew.
C29_AtMostOnePayment ==
    \A n \in ItemNames, c \in Categories, a \in Amounts :
        Cardinality(payments_of(n, c, a)) <= 1

\* the fixed expense k has a payment transaction in the entries: its projected plan item
\* was paid through "Update Payment Status"
paid_through_plan(k) ==
    \E i \in 1..Len(df_main) :
        /\ df_main[i].Type = "Expense"
        /\ df_main[i].Category = "Fixed Expense"
        /\ df_main[i].Note = "Paid planned expense: " \o df_fixed_expenses[k].Name
        /\ df_main[i].Amount = df_fixed_expenses[k].Amount

RECURSIVE unpaid_fixed_total(_)
unpaid_fixed_total(k) ==
    IF k = 0 THEN 0
    ELSE (IF paid_through_plan(k) THEN 0 ELSE df_fixed_expenses[k].Amount) + unpaid_fixed_total(k - 1)

\* C30: after a plan item projected from a fixed expense is paid through payment
\* activation, the dashboard balance holds that fixed expense's amount once: the balance
\* is the Income of the entries less their Expense (the payment among them) less the fixed
\* expenses that have no payment among the entries.
C30_PaidFixedCountedOnce ==
    metrics.balance =
        TotalOf(df_main, "Income") - TotalOf(df_main, "Expense")
            - unpaid_fixed_total(Len(df_fixed_expenses))

====
